---- MODULE Spec2Model ----
(***************************************************************************)
(* Vault import / restore engine of the file-manager application.          *)
(*                                                                         *)
(* Two screens run the engine: FileManagerScreen ("fm", import only) and   *)
(* SecureFolderBrowserScreen ("sv", import and restore).  Both work on the *)
(* same app-private vault directory, the same external (scoped-tree)       *)
(* storage and the same AsyncStorage item holding the metadata of the      *)
(* imported folders.                                                       *)
(*                                                                         *)
(* Strings are sequences of one-character tokens; a percent-escape of a    *)
(* URI ("%3A") is one token.  A path of the vault is the sequence of its   *)
(* segments below the vault root, a path of the external storage the       *)
(* sequence of segments below the volume root.                             *)
(***************************************************************************)
EXTENDS Naturals, Integers, Sequences, FiniteSets, TLC

(***************************************************************************)
(* Bounds of the model.                                                    *)
(***************************************************************************)
\* number of import / restore operations started in one behaviour
MaxOps == 2

(***************************************************************************)
(* Characters.                                                             *)
(***************************************************************************)
Letters ==
  {"a", "b", "c", "d", "e", "f", "g", "h", "i", "j", "k", "l", "m", "n", "o", "p",
   "q", "r", "s", "t", "u", "v", "w", "x", "y", "z", "F", "I", "M", "P", "Q",
   "0", "1", "2", "3", "4", "5", "6", "7", "8", "9"}
Whitespace == {" ", "\t"}
\* the class [a-zA-Z0-9._\-\s] of the sanitizing regular expression
AllowedChars == Letters \cup {".", "_", "-"} \cup Whitespace

(***************************************************************************)
(* JavaScript string helpers used by the handlers.                         *)
(***************************************************************************)
\* s.lastIndexOf(c), 0-based, -1 when c does not occur
LastIndexOf(s, c) ==
  LET hits == {i \in 1..Len(s) : s[i] = c}
  IN IF hits = {} THEN -1 ELSE (CHOOSE i \in hits : \A j \in hits : j <= i) - 1

\* s.substring(from), 0-based
SubstringFrom(s, from) == SubSeq(s, from + 1, Len(s))

\* s.substring(s.lastIndexOf('/') + 1)
AfterLastSlash(s) == SubstringFrom(s, LastIndexOf(s, "/") + 1)

Max(a, b) == IF a >= b THEN a ELSE b

\* s.lastIndexOf(sub) for a string sub, 0-based, -1 when sub does not occur
LastIndexOfString(s, sub) ==
  LET hits == {i \in 1..(Len(s) + 1) :
                 i + Len(sub) - 1 <= Len(s) /\ SubSeq(s, i, i + Len(sub) - 1) = sub}
  IN IF hits = {} THEN -1 ELSE (CHOOSE i \in hits : \A j \in hits : j <= i) - 1

\* s.endsWith(sub)
EndsWith(s, sub) ==
  Len(sub) <= Len(s) /\ SubSeq(s, Len(s) - Len(sub) + 1, Len(s)) = sub

\* s.substring(0, to)
SubstringTo(s, to) == SubSeq(s, 1, Max(to, 0))

\* s.includes('/')
IncludesSlash(s) == \E i \in 1..Len(s) : s[i] = "/"

\* encodeURIComponent on the characters of the model
EncodeChar(c) ==
  CASE c = ":" -> "%3A"
    [] c = "/" -> "%2F"
    [] c = " " -> "%20"
    [] OTHER -> c

EncodeURIComponent(s) == [i \in 1..Len(s) |-> EncodeChar(s[i])]

DecodeChar(c) ==
  CASE c = "%3A" -> ":"
    [] c = "%2F" -> "/"
    [] c = "%20" -> " "
    [] OTHER -> c

DecodeURIComponent(s) == [i \in 1..Len(s) |-> DecodeChar(s[i])]

(***************************************************************************)
(* NameSanitizer: the three replace calls and the trim.                    *)
(***************************************************************************)
\* name.replace(/:/g, '_')
ReplaceColons(s) == [i \in 1..Len(s) |-> IF s[i] = ":" THEN "_" ELSE s[i]]

\* a variant of ReplaceInvalid whose replacement character is itself invalid
ReplaceInvalidWithColon(s) ==
  [i \in 1..Len(s) |-> IF s[i] \in AllowedChars THEN s[i] ELSE ":"]

\* a variant of ReplaceInvalid that keeps every character
KeepInvalid(s) == s

\* name.replace(/[^a-zA-Z0-9._\-\s]/g, '_')
ReplaceInvalid(s) ==
  [i \in 1..Len(s) |-> IF s[i] \in AllowedChars THEN s[i] ELSE "_"]

\* a variant of CollapseWhitespace that keeps the runs as they are
KeepWhitespaceRuns(s) == s

\* name.replace(/\s+/g, ' ')
RECURSIVE CollapseWhitespace(_)
CollapseWhitespace(s) ==
  IF s = <<>> THEN <<>>
  ELSE IF Head(s) \in Whitespace
       THEN IF Len(s) > 1 /\ s[2] \in Whitespace
            THEN CollapseWhitespace(Tail(s))
            ELSE <<" ">> \o CollapseWhitespace(Tail(s))
       ELSE <<Head(s)>> \o CollapseWhitespace(Tail(s))

\* name.trim()
RECURSIVE TrimLeft(_)
TrimLeft(s) ==
  IF s # <<>> /\ Head(s) \in Whitespace THEN TrimLeft(Tail(s)) ELSE s

RECURSIVE TrimRight(_)
TrimRight(s) ==
  IF s # <<>> /\ s[Len(s)] \in Whitespace
  THEN TrimRight(SubSeq(s, 1, Len(s) - 1))
  ELSE s

Trim(s) == TrimRight(TrimLeft(s))

Sanitize(s) == Trim(CollapseWhitespace(ReplaceInvalid(ReplaceColons(s))))

(***************************************************************************)
(* Storage: a file system is a function from the paths that exist to their *)
(* nodes.  A path is a sequence of names; <<>> is the root.                *)
(***************************************************************************)
DirNode == [isDir |-> TRUE, data |-> <<>>]
FileNode(bytes) == [isDir |-> FALSE, data |-> bytes]

IsPrefix(p, q) == Len(p) <= Len(q) /\ SubSeq(q, 1, Len(p)) = p

Children(fs, p) == {q \in DOMAIN fs : Len(q) = Len(p) + 1 /\ IsPrefix(p, q)}

Put(fs, p, node) == [q \in DOMAIN fs \cup {p} |-> IF q = p THEN node ELSE fs[q]]

\* recursive delete of p and everything below it
RemoveTree(fs, p) == [q \in {r \in DOMAIN fs : ~IsPrefix(p, r)} |-> fs[q]]

IsDirIn(fs, p) == p \in DOMAIN fs /\ fs[p].isDir
IsFileIn(fs, p) == p \in DOMAIN fs /\ ~fs[p].isDir

\* `${parent.endsWith('/') ? parent : parent + '/'}${name}`: with an empty name
\* the string names the parent itself
JoinPath(parent, name) == IF name = <<>> THEN parent ELSE Append(parent, name)

\* a directory listing returns the set S as a list: the backend's order, which
\* the handlers neither know nor change
Listing(S) ==
  CHOOSE o \in [1..Cardinality(S) -> S] :
    \A i, j \in 1..Cardinality(S) : i # j => o[i] # o[j]

(***************************************************************************)
(* Scoped-tree (Storage Access Framework) addresses.  The last segment of  *)
(* a document URI is the percent-encoded document id, which the external   *)
(* storage provider forms as <volume>:<path below the volume root>.        *)
(***************************************************************************)
Volume == <<"v">>

RECURSIVE JoinSegments(_)
JoinSegments(p) ==
  IF p = <<>> THEN <<>>
  ELSE IF Len(p) = 1 THEN p[1]
  ELSE p[1] \o <<"/">> \o JoinSegments(Tail(p))

DocId(p) == Volume \o <<":">> \o JoinSegments(p)

TreeUri(t) == <<"content://", "auth", "/", "tree", "/">> \o EncodeURIComponent(DocId(t))

DocUri(t, p) == TreeUri(t) \o <<"/", "document", "/">> \o EncodeURIComponent(DocId(p))

\* uri.startsWith('content://')
IsContentUri(uri) == uri # <<>> /\ uri[1] = "content://"

\* the <<tree, path>> pairs of the external storage fs that uri addresses
UriTargets(fs, uri) ==
  {tp \in {t \in DOMAIN fs : fs[t].isDir} \X DOMAIN fs :
     /\ IsPrefix(tp[1], tp[2])
     /\ \/ uri = DocUri(tp[1], tp[2])
        \/ tp[1] = tp[2] /\ uri = TreeUri(tp[1])}

UriExists(fs, uri) == UriTargets(fs, uri) # {}
UriTree(fs, uri) == (CHOOSE tp \in UriTargets(fs, uri) : TRUE)[1]
UriPath(fs, uri) == (CHOOSE tp \in UriTargets(fs, uri) : TRUE)[2]

\* StorageAccessFramework.readDirectoryAsync(uri): the children's document URIs
SAFChildUris(fs, uri) ==
  {DocUri(UriTree(fs, uri), c) : c \in Children(fs, UriPath(fs, uri))}

(***************************************************************************)
(* File content crosses the bridge to the scoped tree as a string:         *)
(* readAsStringAsync(path, {encoding}) and writeAsStringAsync(uri, string, *)
(* {encoding}).  A string is a pair of its encoding and the bytes it       *)
(* stands for; written under another encoding it yields other bytes.       *)
(***************************************************************************)
ReadAsString(bytes, encoding) == <<encoding, bytes>>

WrittenBytes(string, encoding) ==
  IF string[1] = encoding THEN string[2] ELSE <<"garbled", string>>

\* copyToSAFRecursively: read as Base64, write as Base64
RestoreTransfer(bytes) == WrittenBytes(ReadAsString(bytes, "base64"), "base64")

(***************************************************************************)
(* State.                                                                  *)
(***************************************************************************)
VARIABLES
  ext,             \* external storage reached through the scoped-tree API
  vault,           \* the app-private vault directory (direct paths)
  store,           \* AsyncStorage item SecureFolderMetadata: folder name -> record
  secureMetadata,  \* SecureFolderBrowserScreen's in-memory copy of the store
  svMounted,       \* SecureFolderBrowserScreen is mounted
  op,              \* per screen: the import / restore handler in progress
  isImporting,     \* per screen: the isImporting flag
  isRestoring,     \* SecureFolderBrowserScreen's isRestoring flag
  nOps,            \* operations started so far
  dirty,           \* per screen: the operation in progress has changed ext, vault or store
  probe,           \* a pure function under examination: its input and its results
  nav,             \* SecureFolderBrowserScreen: currentPath, pathHistory, itemsToMove
  lock,            \* secure/LockScreen and the SecureStore item SecureFolderPassword
  appLock,         \* RootLayout's isAppUnlocked, AppLockScreen and the item AppLockPassword
  fmMove           \* FileManagerScreen: currentPath, itemsToMove, executeMove, local files

vars == <<ext, vault, store, secureMetadata, svMounted, op, isImporting,
          isRestoring, nOps, dirty, probe, nav, lock, appLock, fmMove>>

\* the state of the handlers and of the storage
engine == <<ext, vault, store, secureMetadata, svMounted, op, isImporting,
            isRestoring, nOps, dirty, nav, lock, appLock, fmMove>>

Screens == {"fm", "sv"}

\* the vault root below the document directory: absolute paths are sequences
\* of names, <<>> the document directory itself
VaultRoot == <<<<".SecureVault">>>>

\* useState(secureVaultRootPath), useState([]), useState([])
\* a browser that starts at the document directory
DocumentDirectoryNav == [currentPath |-> <<>>, pathHistory |-> <<>>, itemsToMove |-> {}]

RootNav == [currentPath |-> VaultRoot, pathHistory |-> <<>>, itemsToMove |-> {}]

\* the lock screen as it mounts with the SecureStore item absent: no stored
\* password (stored = <<>>, or <<p>> with password p), empty fields
LockLoading ==
  [stored |-> <<>>, mode |-> "loading", password |-> <<>>,
   confirmPassword |-> <<>>, error |-> "", opened |-> "no"]

\* the app as it starts with the SecureStore item absent: RootLayout has
\* isAppUnlocked false and renders AppLockScreen, which is loading
AppLockLoading ==
  [stored |-> <<>>, mode |-> "loading", password |-> <<>>,
   confirmPassword |-> <<>>, error |-> "", isBiometricAvailable |-> FALSE,
   isAppUnlocked |-> FALSE,
   \* the call of onUnlockSuccess that unlocked, read by the properties only
   unlockedBy |-> "none"]

\* the file manager at the document directory, which holds no files yet, and
\* not in move mode; a place is a backend ("saf" for content:// addresses,
\* "local" for paths of the document directory) and a path in it
FMIdle ==
  [local |-> [p \in {<<>>} |-> DirNode],
   currentPath |-> [backend |-> "local", path |-> <<>>],
   itemsToMove |-> <<>>, pc |-> "idle", todo |-> <<>>,
   successCount |-> 0, errorCount |-> 0]

\* no pure function is under examination
NoProbe == [fn |-> "none", stage |-> "none", arg |-> <<>>, out |-> <<>>, again |-> <<>>]

\* the mapping with no key
EmptyMap == [k \in {} |-> k]

EmptyStore == EmptyMap

IdleOp ==
  [kind |-> "none", pc |-> "idle", outcome |-> "none", error |-> "none",
   sourceUri |-> <<>>, sourceName |-> <<>>, destName |-> <<>>,
   todo |-> <<>>, meta |-> EmptyStore, record |-> <<>>, started |-> 0,
   \* history of the operation, read by the properties only
   pre |-> [ext |-> EmptyMap, vault |-> EmptyMap, store |-> EmptyStore],
   deletion |-> "none", recorded |-> FALSE, copyThrew |-> FALSE,
   itemFailures |-> 0, skipped |-> 0, destExisted |-> FALSE, granted |-> <<>>,
   prior |-> <<>>]

Snapshot == [ext |-> ext, vault |-> vault, store |-> store]

\* the operation started last, as the next one remembers it
LastOp ==
  LET o == CHOOSE x \in {op[s] : s \in Screens} :
             \A s \in Screens : op[s].started <= x.started
  IN [kind |-> o.kind, outcome |-> o.outcome, started |-> o.started,
      granted |-> o.granted, destName |-> o.destName, tree |-> o.pre.ext]

(***************************************************************************)
(* The source trees of the model: the folder P with every prefix-closed    *)
(* choice of its candidate entries and no empty subdirectory, alone or     *)
(* (with the single file "_") next to a second folder Q.                   *)
(***************************************************************************)
TopP == <<"P">>
TopQ == <<"Q">>
SubD == <<"d">>
NameBlank == <<" ">>
NameStar == <<"*">>
NameUnder == <<"_">>

CandidateDirs == {<<TopP>>, <<TopP, SubD>>, <<TopQ>>}
CandidateFiles ==
  {<<TopP, NameBlank>>, <<TopP, NameStar>>, <<TopP, NameUnder>>,
   <<TopP, SubD, NameUnder>>, <<TopQ, NameUnder>>}

WellFormedTree(S) ==
  /\ <<TopP>> \in S
  /\ \A p \in S : Len(p) > 1 => SubSeq(p, 1, Len(p) - 1) \in S
  /\ \A p \in S \cap CandidateDirs :
       p = <<TopP>> \/ \E q \in S : Len(q) = Len(p) + 1 /\ IsPrefix(p, q)
  /\ <<TopQ>> \in S => S = {<<TopP>>, <<TopP, NameUnder>>, <<TopQ>>, <<TopQ, NameUnder>>}

\* a file's bytes are named after the place the file had at the start
InitialExt(S) ==
  [p \in S \cup {<<>>} |-> IF p \in CandidateFiles THEN FileNode(p) ELSE DirNode]

Init ==
  /\ \E S \in SUBSET (CandidateDirs \cup CandidateFiles) :
       WellFormedTree(S) /\ ext = InitialExt(S)
  /\ vault = EmptyMap
  /\ store = EmptyStore
  /\ secureMetadata = EmptyStore
  /\ svMounted = FALSE
  /\ op = [s \in Screens |-> IdleOp]
  /\ isImporting = [s \in Screens |-> FALSE]
  /\ isRestoring = FALSE
  /\ nOps = 0
  /\ dirty = [s \in Screens |-> FALSE]
  /\ nav = RootNav
  /\ lock = LockLoading
  /\ appLock = AppLockLoading
  /\ fmMove = FMIdle
  /\ probe = NoProbe

(***************************************************************************)
(* Direct-path backend (expo-file-system on file:// paths).                *)
(***************************************************************************)
Prefixes(p) == {SubSeq(p, 1, n) : n \in 0..Len(p)}

\* makeDirectoryAsync(p, {intermediates: true}) can succeed
CanMakeDirectory(fs, p) == \A q \in Prefixes(p) : ~IsFileIn(fs, q)

MakeDirectory(fs, p) ==
  [q \in DOMAIN fs \cup Prefixes(p) |-> IF q \in DOMAIN fs THEN fs[q] ELSE DirNode]

\* copyAsync({from, to}) can write the file `to`
CanWriteFile(fs, p) ==
  /\ p # <<>>
  /\ IsDirIn(fs, SubSeq(p, 1, Len(p) - 1))
  /\ ~IsDirIn(fs, p)

(***************************************************************************)
(* Metadata store helpers (loadSecureFolderMetadata / save...).            *)
(***************************************************************************)
\* loadSecureFolderMetadata: the parsed item, or {} when getItem throws
LoadedMetadata(item, getItemThrows) == IF getItemThrows THEN EmptyStore ELSE item

\* saveSecureFolderMetadata: the item after setItem, unchanged when it throws
SavedMetadata(item, metadata, setItemThrows) ==
  IF setItemThrows THEN item ELSE metadata

MetaRecord(uri, name, date) ==
  [originalUri |-> uri, originalName |-> name, importedDate |-> date]

\* currentMeta[key] = record
WithRecord(metadata, key, record) ==
  [k \in DOMAIN metadata \cup {key} |-> IF k = key THEN record ELSE metadata[k]]

\* delete updatedMetadata[key]
WithoutRecord(metadata, key) == [k \in DOMAIN metadata \ {key} |-> metadata[k]]

(***************************************************************************)
(* Bookkeeping shared by the handlers.                                     *)
(***************************************************************************)
InFlight(o) == o.pc \notin {"idle", "done"}

\* dirty[s]: some step of the operation in progress changed the storage
Monitor(s) ==
  dirty' = [dirty EXCEPT ![s] =
              (IF InFlight(op[s]) THEN @ ELSE FALSE)
              \/ <<ext', vault', store'>> # <<ext, vault, store>>]

\* a variant of Descend that walks the children after the entries that wait
DescendLast(children, rest) == rest \o children

\* for (const child of children) await copy...(child): the loop over the
\* children runs to its end before the caller's loop takes its next entry
Descend(children, rest) == children \o rest

\* the catch block of the import handler: Failed with the error's message
ImportFailed(o, err) ==
  [o EXCEPT !.pc = "done", !.outcome = "Failed", !.error = err, !.todo = <<>>]

\* a variant of ImportPhaseAfter that records the folder before it deletes
\* the original
ImportPhaseAfterRecordFirst(phase) ==
  CASE phase = "copy" -> "metaLoad"
    [] phase = "metaLoad" -> "metaSave"
    [] phase = "metaSave" -> "delete"
    [] phase = "delete" -> "done"

\* the order of the steps of handleImportFolder after the destination exists
ImportPhaseAfter(phase) ==
  CASE phase = "copy" -> "delete"
    [] phase = "delete" -> "metaLoad"
    [] phase = "metaLoad" -> "metaSave"
    [] phase = "metaSave" -> "done"

ImportAdvance(o, phase) ==
  LET n == ImportPhaseAfter(phase)
  IN IF n = "done" THEN [o EXCEPT !.pc = "done", !.outcome = "Complete", !.todo = <<>>]
     ELSE [o EXCEPT !.pc = n]

\* a variant of ImportStep without the finally block
ImportStepKeepsFlag(s, o) ==
  /\ op' = [op EXCEPT ![s] = o]
  /\ isImporting' = isImporting

\* op and the in-flight flag after a step of the import handler on screen s
ImportStep(s, o) ==
  /\ op' = [op EXCEPT ![s] = o]
  /\ isImporting' = [isImporting EXCEPT ![s] = IF o.pc = "done" THEN FALSE ELSE @]

(***************************************************************************)
(* copyDirectoryRecursively: the name of the item behind a source URI.     *)
(***************************************************************************)
DigitTokens == <<"0", "1", "2", "3", "4", "5", "6", "7", "8", "9">>

\* `unknown_item_${Date.now()}`; the clock of the model is the operation count
UnknownItemName(now) ==
  <<"u", "n", "k", "n", "o", "w", "n", "_", "i", "t", "e", "m", "_">>
    \o <<DigitTokens[now + 1]>>

\* SecureFolderBrowserScreen: the part after the last '/' or ':' of the
\* decoded last segment
ItemNameSV(uri, now) ==
  LET decodedSegment == DecodeURIComponent(AfterLastSlash(uri))
      lastSlash == LastIndexOf(decodedSegment, "/")
      lastColon == LastIndexOf(decodedSegment, ":")
      itemName == SubstringFrom(decodedSegment, Max(lastSlash, lastColon) + 1)
  IN IF itemName = <<>> THEN UnknownItemName(now) ELSE itemName

\* FileManagerScreen: the whole decoded last segment, the other derivation
\* only when that is empty
ItemNameFM(uri, now) ==
  LET name == DecodeURIComponent(AfterLastSlash(uri))
  IN IF name # <<>> THEN name ELSE ItemNameSV(uri, now)

ItemName(s, uri, now) == IF s = "fm" THEN ItemNameFM(uri, now) ELSE ItemNameSV(uri, now)

\* "ImportedFolder"
ImportedFolderName ==
  <<"I", "m", "p", "o", "r", "t", "e", "d", "F", "o", "l", "d", "e", "r">>

\* decodeURIComponent(uri.substring(uri.lastIndexOf('/') + 1)) || "ImportedFolder"
SourceDirectoryName(uri) ==
  LET n == DecodeURIComponent(AfterLastSlash(uri))
  IN IF n = <<>> THEN ImportedFolderName ELSE n

(***************************************************************************)
(* handleImportFolder (both screens).                                      *)
(***************************************************************************)
\* the import button can be pressed on screen s
CanStartImport(s) ==
  /\ ~InFlight(op[s])
  /\ ~isImporting[s]
  /\ s = "sv" => svMounted /\ ~isRestoring
  /\ s = "fm" => ~svMounted

\* directories the user can pick in the platform's folder picker
Pickable(fs) == {p \in DOMAIN fs : Len(p) = 1 /\ fs[p].isDir}

\* a variant of ImportDenied without the return after the alert
ImportDeniedMissingReturn(o) ==
  [o EXCEPT !.pc = "check", !.outcome = "Denied", !.error = "permission"]

\* permissions.granted is false: the alert, then return
ImportDenied(o) ==
  [o EXCEPT !.pc = "done", !.outcome = "Denied", !.error = "permission"]

\* requestDirectoryPermissionsAsync and the confirmation alert
ImportRequestPermission(s) ==
  /\ CanStartImport(s)
  /\ nOps < MaxOps
  /\ nOps' = nOps + 1
  /\ LET o == [IdleOp EXCEPT !.kind = "import", !.started = nOps + 1, !.pre = Snapshot]
     IN \/ \* permissions.granted is false
           ImportStep(s, ImportDenied(o))
        \/ \* the request throws: "Could not start import"
           ImportStep(s, [o EXCEPT !.pc = "done", !.outcome = "Failed",
                                   !.error = "start"])
        \/ \E t \in Pickable(ext) :
             ImportStep(s, [o EXCEPT !.pc = "confirm",
                                     !.sourceUri = TreeUri(t),
                                     !.sourceName = SourceDirectoryName(TreeUri(t)),
                                     !.granted = t])
  /\ UNCHANGED <<probe, fmMove, appLock, lock, nav, ext, vault, store, secureMetadata, svMounted, isRestoring>>
  /\ Monitor(s)

\* "Cancel" in the confirmation alert
ImportCancel(s) ==
  /\ op[s].kind = "import" /\ op[s].pc = "confirm"
  /\ ImportStep(s, [op[s] EXCEPT !.pc = "done", !.outcome = "Cancelled"])
  /\ UNCHANGED <<probe, fmMove, appLock, lock, nav, ext, vault, store, secureMetadata, svMounted, isRestoring, nOps>>
  /\ Monitor(s)

\* "Import & Delete Original": setIsImporting(true)
ImportConfirm(s) ==
  /\ op[s].kind = "import" /\ op[s].pc = "confirm"
  /\ op' = [op EXCEPT ![s] = [@ EXCEPT !.pc = "check"]]
  /\ isImporting' = [isImporting EXCEPT ![s] = TRUE]
  /\ UNCHANGED <<probe, fmMove, appLock, lock, nav, ext, vault, store, secureMetadata, svMounted, isRestoring, nOps>>
  /\ Monitor(s)

\* make the vault root, sanitize the top-level name, check the collision
ImportCheckDestination(s) ==
  /\ op[s].kind = "import" /\ op[s].pc = "check"
  /\ LET name == Sanitize(op[s].sourceName)
         dest == JoinPath(<<>>, name)
         o == [op[s] EXCEPT !.destName = name]
     IN \/ \* makeDirectoryAsync(vault root) throws
           /\ vault' = vault
           /\ ImportStep(s, ImportFailed(o, "io"))
        \/ /\ CanMakeDirectory(vault, <<>>)
           /\ vault' = MakeDirectory(vault, <<>>)
           /\ \E statThrows \in BOOLEAN :
                \* getInfoAsync(dest).catch(() => ({exists: false}))
                LET exists == IF statThrows THEN FALSE ELSE dest \in DOMAIN vault'
                    checked == [o EXCEPT !.destExisted = dest \in DOMAIN vault']
                IN IF exists
                   THEN ImportStep(s, ImportFailed(checked, "collision"))
                   ELSE ImportStep(s, [checked EXCEPT !.pc = "create"])
  /\ UNCHANGED <<probe, fmMove, appLock, lock, nav, ext, store, secureMetadata, svMounted, isRestoring, nOps>>
  /\ Monitor(s)

\* the items of a listing, each to be copied below dest
ImportItems(order, dest) == [i \in 1..Len(order) |-> [uri |-> order[i], dest |-> dest]]

\* after the listing of a directory: its children come first, or the copy is over
ImportContinue(o, todo) ==
  IF todo = <<>> THEN ImportAdvance([o EXCEPT !.todo = <<>>], "copy")
  ELSE [o EXCEPT !.pc = "copy", !.todo = todo]

\* a variant of OnCopyThrow that catches the error inside the walk and goes
\* on with the next item
OnCopyThrowSwallowed(o) ==
  [ImportContinue(o, Tail(o.todo)) EXCEPT !.copyThrew = TRUE]

\* what a throw from copyAsync does to the import: it leaves
\* copyDirectoryRecursively and every caller up to the handler's catch block
OnCopyThrow(o) == [ImportFailed(o, "io") EXCEPT !.copyThrew = TRUE]

\* create the destination folder and list the granted folder
ImportCreateDestination(s) ==
  /\ op[s].kind = "import" /\ op[s].pc = "create"
  /\ LET dest == JoinPath(<<>>, op[s].destName)
     IN \/ \* makeDirectoryAsync(dest) throws
           /\ vault' = vault
           /\ ImportStep(s, ImportFailed(op[s], "io"))
        \/ /\ CanMakeDirectory(vault, dest)
           /\ vault' = MakeDirectory(vault, dest)
           /\ \/ \* readDirectoryAsync(source) throws
                 ImportStep(s, ImportFailed(op[s], "io"))
              \/ /\ UriExists(ext, op[s].sourceUri)
                 /\ ext[UriPath(ext, op[s].sourceUri)].isDir
                 /\ ImportStep(s, ImportContinue(op[s],
                       ImportItems(Listing(SAFChildUris(ext, op[s].sourceUri)), dest)))
  /\ UNCHANGED <<probe, fmMove, appLock, lock, nav, ext, store, secureMetadata, svMounted, isRestoring, nOps>>
  /\ Monitor(s)

\* a variant of IsEmptyName that lets every name through
NeverEmptyName(name) == FALSE

\* !sanitizedItemName.trim()
IsEmptyName(name) == Trim(name) = <<>>

\* one call of copyDirectoryRecursively, up to its loop over the children
ImportCopyStep(s) ==
  /\ op[s].kind = "import" /\ op[s].pc = "copy" /\ op[s].todo # <<>>
  /\ LET item == Head(op[s].todo)
         rest == Tail(op[s].todo)
         itemName == ItemName(s, item.uri, op[s].started)
         sanitizedItemName == Sanitize(itemName)
         dest == JoinPath(item.dest, sanitizedItemName)
     IN \/ \* getInfoAsync(source) throws
           /\ vault' = vault
           /\ ImportStep(s, ImportFailed(op[s], "io"))
        \/ \* the source does not exist: skipped
           /\ ~UriExists(ext, item.uri)
           /\ vault' = vault
           /\ ImportStep(s, ImportContinue([op[s] EXCEPT !.skipped = @ + 1], rest))
        \/ \* the name is empty after sanitization: skipped
           /\ UriExists(ext, item.uri)
           /\ IsEmptyName(sanitizedItemName)
           /\ vault' = vault
           /\ ImportStep(s, ImportContinue([op[s] EXCEPT !.skipped = @ + 1], rest))
        \/ \* a directory
           /\ UriExists(ext, item.uri)
           /\ ~IsEmptyName(sanitizedItemName)
           /\ ext[UriPath(ext, item.uri)].isDir
           /\ \/ \* makeDirectoryAsync throws
                 /\ vault' = vault
                 /\ ImportStep(s, ImportFailed(op[s], "io"))
              \/ /\ CanMakeDirectory(vault, dest)
                 /\ vault' = MakeDirectory(vault, dest)
                 /\ \/ \* readDirectoryAsync throws
                       ImportStep(s, ImportFailed(op[s], "io"))
                    \/ /\ IsContentUri(item.uri)
                       /\ ImportStep(s, ImportContinue(op[s],
                            Descend(ImportItems(Listing(SAFChildUris(ext, item.uri)),
                                                dest), rest)))
        \/ \* a file
           /\ UriExists(ext, item.uri)
           /\ ~IsEmptyName(sanitizedItemName)
           /\ ~ext[UriPath(ext, item.uri)].isDir
           /\ \/ \* copyAsync throws
                 /\ vault' = vault
                 /\ ImportStep(s, OnCopyThrow(op[s]))
              \/ /\ CanWriteFile(vault, dest)
                 /\ vault' = Put(vault, dest, FileNode(ext[UriPath(ext, item.uri)].data))
                 /\ ImportStep(s, ImportContinue(op[s], rest))
  /\ UNCHANGED <<probe, fmMove, appLock, lock, nav, ext, store, secureMetadata, svMounted, isRestoring, nOps>>
  /\ Monitor(s)

\* a variant of OnDeleteThrow that goes on to record the folder
OnDeleteThrowIgnored(o) == ImportAdvance([o EXCEPT !.deletion = "invoked"], "delete")

\* deleteDirectoryRecursivelySAF throws: into the handler's catch
OnDeleteThrow(o) == ImportFailed([o EXCEPT !.deletion = "invoked"], "io")

\* deleteDirectoryRecursivelySAF(sourceDirectoryUri)
ImportDelete(s) ==
  /\ op[s].kind = "import" /\ op[s].pc = "delete"
  /\ \/ \* StorageAccessFramework.deleteAsync throws
        /\ ext' = ext
        /\ ImportStep(s, OnDeleteThrow(op[s]))
     \/ /\ UriExists(ext, op[s].sourceUri)
        /\ ext' = RemoveTree(ext, UriPath(ext, op[s].sourceUri))
        /\ ImportStep(s, ImportAdvance([op[s] EXCEPT !.deletion = "done"], "delete"))
  /\ UNCHANGED <<probe, fmMove, appLock, lock, nav, vault, store, secureMetadata, svMounted, isRestoring, nOps>>
  /\ Monitor(s)

\* currentMeta = await loadSecureFolderMetadata(); currentMeta[name] = {...}
ImportMetaLoad(s) ==
  /\ op[s].kind = "import" /\ op[s].pc = "metaLoad"
  /\ \E getItemThrows \in BOOLEAN :
       LET record == MetaRecord(op[s].sourceUri, op[s].sourceName, op[s].started)
           currentMeta == WithRecord(LoadedMetadata(store, getItemThrows),
                                     op[s].destName, record)
       IN ImportStep(s, ImportAdvance([op[s] EXCEPT !.meta = currentMeta], "metaLoad"))
  /\ UNCHANGED <<probe, fmMove, appLock, lock, nav, ext, vault, store, secureMetadata, svMounted, isRestoring, nOps>>
  /\ Monitor(s)

\* await saveSecureFolderMetadata(currentMeta); setSecureMetadata(currentMeta)
ImportMetaSave(s) ==
  /\ op[s].kind = "import" /\ op[s].pc = "metaSave"
  /\ \E setItemThrows \in BOOLEAN :
       /\ store' = SavedMetadata(store, op[s].meta, setItemThrows)
       /\ ImportStep(s, ImportAdvance([op[s] EXCEPT !.recorded = ~setItemThrows],
                                      "metaSave"))
  /\ secureMetadata' = IF s = "sv" THEN op[s].meta ELSE secureMetadata
  /\ UNCHANGED <<probe, fmMove, appLock, lock, nav, ext, vault, svMounted, isRestoring, nOps>>
  /\ Monitor(s)

(***************************************************************************)
(* SecureFolderBrowserScreen: mounting runs initialize().                  *)
(***************************************************************************)
\* the initialize() effect: the vault root is created and the metadata loaded
InitializeSV ==
  /\ svMounted' = TRUE
  /\ \/ \* makeDirectoryAsync(vault root) throws: the metadata is not loaded
        /\ vault' = vault
        /\ secureMetadata' = EmptyStore
     \/ /\ CanMakeDirectory(vault, <<>>)
        /\ vault' = MakeDirectory(vault, <<>>)
        /\ \E getItemThrows \in BOOLEAN :
             secureMetadata' = LoadedMetadata(store, getItemThrows)
  /\ nav' = RootNav
  /\ UNCHANGED <<probe, fmMove, appLock, lock, ext, store, op, isImporting, isRestoring, nOps, dirty>>

\* the vault screen is opened while no handler of the file manager is running
MountSV ==
  /\ ~svMounted
  /\ ~InFlight(op["fm"])
  /\ InitializeSV

\* leaving the screen drops its state
UnmountSV ==
  /\ svMounted
  /\ ~InFlight(op["sv"])
  /\ svMounted' = FALSE
  /\ secureMetadata' = EmptyStore
  /\ nav' = RootNav
  /\ UNCHANGED <<probe, fmMove, appLock, lock, ext, vault, store, op, isImporting, isRestoring, nOps, dirty>>

(***************************************************************************)
(* handleRestoreFolder and copyToSAFRecursively.                           *)
(***************************************************************************)
\* the catch block of the restore handler
RestoreFailed(o, err) ==
  [o EXCEPT !.pc = "done", !.outcome = "Failed", !.error = err, !.todo = <<>>]

\* a variant of RestorePhaseAfter that removes the record before it deletes
\* the vault folder
RestorePhaseAfterRemoveFirst(phase) ==
  CASE phase = "copy" -> "metaSave"
    [] phase = "metaSave" -> "delete"
    [] phase = "delete" -> "done"

\* the order of the steps of handleRestoreFolder after the grant
RestorePhaseAfter(phase) ==
  CASE phase = "copy" -> "delete"
    [] phase = "delete" -> "metaSave"
    [] phase = "metaSave" -> "done"

RestoreAdvance(o, phase) ==
  LET n == RestorePhaseAfter(phase)
  IN IF n = "done" THEN [o EXCEPT !.pc = "done", !.outcome = "Complete", !.todo = <<>>]
     ELSE [o EXCEPT !.pc = n]

RestoreStep(o) ==
  /\ op' = [op EXCEPT !["sv"] = o]
  /\ isRestoring' = IF o.pc = "done" THEN FALSE ELSE isRestoring

RestoreContinue(o, todo) ==
  IF todo = <<>> THEN RestoreAdvance([o EXCEPT !.todo = <<>>], "copy")
  ELSE [o EXCEPT !.pc = "copy", !.todo = todo]

\* a variant of OnRestoreItemError that rethrows to the handler
OnRestoreItemErrorRethrown(o, rest) ==
  RestoreFailed([o EXCEPT !.itemFailures = @ + 1], "io")

\* what a failure inside one of the try blocks of copyToSAFRecursively does:
\* it is reported by onProgress and the call returns normally
OnRestoreItemError(o, rest) ==
  RestoreContinue([o EXCEPT !.itemFailures = @ + 1], rest)

\* the parent URI suggested to the folder picker
ParentPermissionUri(record) ==
  LET originalNameEncoded == EncodeURIComponent(record.originalName)
      lastSegmentIndex == LastIndexOfString(record.originalUri, originalNameEncoded)
  IN IF lastSegmentIndex > 0 /\ EndsWith(record.originalUri, originalNameEncoded)
     THEN SubstringTo(record.originalUri, lastSegmentIndex - 1)
     ELSE record.originalUri

\* a variant of PermissionHint that suggests nothing unless the parent was derived
PermissionHintParentOnly(record) ==
  LET parentPermissionUri == ParentPermissionUri(record)
  IN IF parentPermissionUri # record.originalUri /\ IncludesSlash(parentPermissionUri)
     THEN parentPermissionUri ELSE <<>>

\* the argument of requestDirectoryPermissionsAsync; <<>> stands for undefined
PermissionHint(record) ==
  LET parentPermissionUri == ParentPermissionUri(record)
  IN IF parentPermissionUri # <<>> /\ IncludesSlash(parentPermissionUri)
     THEN parentPermissionUri ELSE <<>>

\* item.name of the entries of a directory listing
ChildNames(fs, p) == {q[Len(q)] : q \in Children(fs, p)}

\* a variant of CanRestore that offers the control for every folder of the root
CanRestoreAnyFolder(name) ==
  /\ svMounted
  /\ ~InFlight(op["sv"])
  /\ ~isImporting["sv"]
  /\ ~isRestoring
  /\ nav.currentPath = VaultRoot
  /\ IsDirIn(vault, <<name>>)

\* canRestoreSelectedItem: one selected directory of the vault root with a record
CanRestore(name) ==
  /\ svMounted
  /\ ~InFlight(op["sv"])
  /\ ~isImporting["sv"]
  /\ ~isRestoring
  /\ nav.currentPath = VaultRoot
  /\ IsDirIn(vault, <<name>>)
  /\ name \in DOMAIN secureMetadata

\* the restore button and the confirmation alert
RestoreRequest ==
  /\ nOps < MaxOps
  /\ \E name \in ChildNames(vault, <<>>) :
       /\ CanRestore(name)
       /\ LET o == [IdleOp EXCEPT !.kind = "restore", !.started = nOps + 1,
                                  !.pre = Snapshot, !.prior = LastOp,
                                  !.destName = name, !.meta = secureMetadata]
          IN IF name \notin DOMAIN secureMetadata
             THEN \* "Metadata not found for this folder. Cannot restore."
                  RestoreStep([o EXCEPT !.pc = "done", !.outcome = "Failed",
                                        !.error = "norecord"])
             ELSE RestoreStep([o EXCEPT !.pc = "confirm",
                                        !.record = secureMetadata[name]])
  /\ nOps' = nOps + 1
  /\ UNCHANGED <<probe, fmMove, appLock, lock, nav, ext, vault, store, secureMetadata, svMounted, isImporting>>
  /\ Monitor("sv")

RestoreCancel ==
  /\ op["sv"].kind = "restore" /\ op["sv"].pc = "confirm"
  /\ RestoreStep([op["sv"] EXCEPT !.pc = "done", !.outcome = "Cancelled"])
  /\ UNCHANGED <<probe, fmMove, appLock, lock, nav, ext, vault, store, secureMetadata, svMounted, isImporting, nOps>>
  /\ Monitor("sv")

\* "Restore & Delete from Vault": setIsRestoring(true)
RestoreConfirm ==
  /\ op["sv"].kind = "restore" /\ op["sv"].pc = "confirm"
  /\ op' = [op EXCEPT !["sv"] = [@ EXCEPT !.pc = "permission"]]
  /\ isRestoring' = TRUE
  /\ UNCHANGED <<probe, fmMove, appLock, lock, nav, ext, vault, store, secureMetadata, svMounted, isImporting, nOps>>
  /\ Monitor("sv")

\* directories the user can pick as the place to restore to
RestorePickable(fs) == {<<>>} \cup Pickable(fs)

\* requestDirectoryPermissionsAsync(hint)
RestorePermission ==
  /\ op["sv"].kind = "restore" /\ op["sv"].pc = "permission"
  /\ LET o == [op["sv"] EXCEPT !.sourceUri = PermissionHint(op["sv"].record)]
     IN \/ \* the request throws
           RestoreStep(RestoreFailed(o, "io"))
        \/ \* permissions.granted is false
           RestoreStep(RestoreFailed(o, "permission"))
        \/ \E g \in RestorePickable(ext) :
             RestoreStep([o EXCEPT !.pc = "copy", !.granted = g,
                            !.todo = <<[src |-> <<o.destName>>,
                                        destParent |-> TreeUri(g),
                                        itemName |-> o.record.originalName]>>])
  /\ UNCHANGED <<probe, fmMove, appLock, lock, nav, ext, vault, store, secureMetadata, svMounted, isImporting, nOps>>
  /\ Monitor("sv")

\* parentContents.find(uri => decodeURIComponent(last segment) === itemName)
FindByName(fs, parentUri, itemName) ==
  {u \in SAFChildUris(fs, parentUri) :
     DecodeURIComponent(AfterLastSlash(u)) = itemName}

\* the children of a vault directory as items to restore below destParent
RestoreItems(names, src, destParent) ==
  [i \in 1..Len(names) |->
     [src |-> Append(src, names[i]), destParent |-> destParent, itemName |-> names[i]]]

\* one call of copyToSAFRecursively, up to its loop over the children
RestoreCopyStep ==
  /\ op["sv"].kind = "restore" /\ op["sv"].pc = "copy" /\ op["sv"].todo # <<>>
  /\ LET o == op["sv"]
         item == Head(o.todo)
         rest == Tail(o.todo)
         parentOk == UriExists(ext, item.destParent)
                       /\ ext[UriPath(ext, item.destParent)].isDir
         newPath == Append(UriPath(ext, item.destParent), item.itemName)
         newUri == DocUri(UriTree(ext, item.destParent), newPath)
         found == FindByName(ext, item.destParent, item.itemName)
     IN \/ \* getInfoAsync(source) throws: out of the walk, into the handler's catch
           /\ ext' = ext
           /\ RestoreStep(RestoreFailed(o, "io"))
        \/ \* the source does not exist: skipped
           /\ item.src \notin DOMAIN vault
           /\ ext' = ext
           /\ RestoreStep(RestoreContinue([o EXCEPT !.skipped = @ + 1], rest))
        \/ \* a directory
           /\ IsDirIn(vault, item.src)
           /\ \/ \* createFileAsync or the listing throws, or nothing is found
                 /\ ext' = ext
                 /\ RestoreStep(OnRestoreItemError(o, rest))
              \/ \* created, or createFileAsync returned null and the name was found
                 /\ parentOk
                 /\ \E createdDirUri \in
                         (IF newPath \in DOMAIN ext THEN found ELSE {newUri}) :
                      /\ ext' = IF newPath \in DOMAIN ext THEN ext
                                ELSE Put(ext, newPath, DirNode)
                      /\ \/ \* readDirectoryAsync(source) throws
                            RestoreStep(RestoreFailed(o, "io"))
                         \/ RestoreStep(RestoreContinue(o,
                              Descend(RestoreItems(Listing(ChildNames(vault, item.src)),
                                                   item.src, createdDirUri), rest)))
        \/ \* a file
           /\ IsFileIn(vault, item.src)
           /\ \/ \* createFileAsync or the listing throws, or nothing is found
                 /\ ext' = ext
                 /\ RestoreStep(OnRestoreItemError(o, rest))
              \/ /\ parentOk
                 /\ \E createdFileUri \in
                         (IF newPath \in DOMAIN ext THEN found ELSE {newUri}) :
                      LET created == IF newPath \in DOMAIN ext THEN ext
                                     ELSE Put(ext, newPath, FileNode(<<>>))
                          target == UriPath(created, createdFileUri)
                      IN \/ \* readAsStringAsync or writeAsStringAsync throws
                            /\ ext' = created
                            /\ RestoreStep(OnRestoreItemError(o, rest))
                         \/ /\ IsFileIn(created, target)
                            /\ ext' = Put(created, target,
                                          FileNode(RestoreTransfer(vault[item.src].data)))
                            /\ RestoreStep(RestoreContinue(o, rest))
  /\ UNCHANGED <<probe, fmMove, appLock, lock, nav, vault, store, secureMetadata, svMounted, isImporting, nOps>>
  /\ Monitor("sv")

\* FileSystem.deleteAsync(sourceFolderPathInVault, {idempotent: true})
RestoreDelete ==
  /\ op["sv"].kind = "restore" /\ op["sv"].pc = "delete"
  /\ \/ \* deleteAsync throws
        /\ vault' = vault
        /\ RestoreStep(RestoreFailed([op["sv"] EXCEPT !.deletion = "invoked"], "io"))
     \/ /\ vault' = RemoveTree(vault, <<op["sv"].destName>>)
        /\ RestoreStep(RestoreAdvance([op["sv"] EXCEPT !.deletion = "done"], "delete"))
  /\ UNCHANGED <<probe, fmMove, appLock, lock, nav, ext, store, secureMetadata, svMounted, isImporting, nOps>>
  /\ Monitor("sv")

\* updatedMetadata = {...secureMetadata}; delete updatedMetadata[name]; save
RestoreMetaSave ==
  /\ op["sv"].kind = "restore" /\ op["sv"].pc = "metaSave"
  /\ LET updatedMetadata == WithoutRecord(op["sv"].meta, op["sv"].destName)
     IN /\ \E setItemThrows \in BOOLEAN :
             /\ store' = SavedMetadata(store, updatedMetadata, setItemThrows)
             /\ RestoreStep(RestoreAdvance([op["sv"] EXCEPT !.recorded = ~setItemThrows],
                                           "metaSave"))
        /\ secureMetadata' = updatedMetadata
  /\ UNCHANGED <<probe, fmMove, appLock, lock, nav, ext, vault, svMounted, isImporting, nOps>>
  /\ Monitor("sv")

ImportNext(s) ==
  \/ ImportRequestPermission(s)
  \/ ImportCancel(s)
  \/ ImportConfirm(s)
  \/ ImportCheckDestination(s)
  \/ ImportCreateDestination(s)
  \/ ImportCopyStep(s)
  \/ ImportDelete(s)
  \/ ImportMetaLoad(s)
  \/ ImportMetaSave(s)

RestoreNext ==
  \/ RestoreRequest
  \/ RestoreCancel
  \/ RestoreConfirm
  \/ RestorePermission
  \/ RestoreCopyStep
  \/ RestoreDelete
  \/ RestoreMetaSave

Next ==
  \/ \E s \in Screens : ImportNext(s)
  \/ RestoreNext
  \/ MountSV
  \/ UnmountSV

Spec == Init /\ [][Next]_vars

(***************************************************************************)
(* The handlers when every awaited call returns or throws: a handler that  *)
(* has set its in-flight flag keeps taking its next step.                  *)
(***************************************************************************)
ImportRunning(s) ==
  \/ ImportCheckDestination(s)
  \/ ImportCreateDestination(s)
  \/ ImportCopyStep(s)
  \/ ImportDelete(s)
  \/ ImportMetaLoad(s)
  \/ ImportMetaSave(s)

RestoreRunning ==
  \/ RestorePermission
  \/ RestoreCopyStep
  \/ RestoreDelete
  \/ RestoreMetaSave

SpecLive ==
  /\ Init /\ [][Next]_vars
  /\ \A s \in Screens : WF_vars(ImportRunning(s))
  /\ WF_vars(RestoreRunning)

(***************************************************************************)
(* The permission hint of a restore as a pure function of the record that  *)
(* an import wrote for a granted address.  The engine stands still.        *)
(***************************************************************************)
\* longest address built from ProbeUriTokens
MaxUriLen == 3

ProbeUris ==
  UNION {[1..k -> {"/", "P", ":", "%3A"}] : k \in 0..MaxUriLen}
    \cup {TreeUri(<<>>), TreeUri(<<TopP>>), TreeUri(<<TopP, SubD>>)}

InitHint ==
  /\ ext = InitialExt({<<TopP>>})
  /\ vault = EmptyMap
  /\ store = EmptyStore
  /\ secureMetadata = EmptyStore
  /\ svMounted = FALSE
  /\ op = [s \in Screens |-> IdleOp]
  /\ isImporting = [s \in Screens |-> FALSE]
  /\ isRestoring = FALSE
  /\ nOps = 0
  /\ dirty = [s \in Screens |-> FALSE]
  /\ nav = RootNav
  /\ lock = LockLoading
  /\ appLock = AppLockLoading
  /\ fmMove = FMIdle
  /\ \E uri \in ProbeUris :
       probe = [NoProbe EXCEPT !.fn = "hint", !.stage = "input",
                               !.arg = MetaRecord(uri, SourceDirectoryName(uri), 0)]

\* the statements between the try and requestDirectoryPermissionsAsync
DerivePermissionHint ==
  /\ probe.fn = "hint" /\ probe.stage = "input"
  /\ probe' = [probe EXCEPT !.stage = "once", !.out = PermissionHint(probe.arg)]
  /\ UNCHANGED engine

SpecHint == InitHint /\ [][DerivePermissionHint]_vars

(***************************************************************************)
(* The vault browser: navigation, delete and move inside the vault, next   *)
(* to the restore handler, on an imported folder P with a subdirectory     *)
(* that holds a file.                                                      *)
(***************************************************************************)
\* path.startsWith(secureVaultRootPath)
InVault(path) == IsPrefix(VaultRoot, path)

\* the place in the vault that an absolute path inside the root names
VaultPath(path) == SubSeq(path, Len(VaultRoot) + 1, Len(path))

\* directoryContents as loadFiles fills it: the entries of currentPath whose
\* name does not start with '.', each as `${pathToLoad}/${fileName}`
DirectoryContents ==
  IF InVault(nav.currentPath) /\ IsDirIn(vault, VaultPath(nav.currentPath))
  THEN {Append(nav.currentPath, q[Len(q)]) :
          q \in {c \in Children(vault, VaultPath(nav.currentPath)) :
                   c[Len(c)][1] # "."}}
  ELSE {}

\* the folder P of an earlier session is in the vault under the names the
\* import gave its entries, with its record, and its source is gone
InitBrowser ==
  /\ ext = InitialExt({})
  /\ LET ImportedFiles == {<<TopP, SubD, NameUnder>>}
         ImportedAs(p) == [i \in 1..Len(p) |-> Sanitize(DocId(SubSeq(p, 1, i)))]
     IN vault = [q \in {ImportedAs(p) : p \in {<<>>, <<TopP>>, <<TopP, SubD>>}
                                                \cup ImportedFiles} |->
                  IF \E p \in ImportedFiles : ImportedAs(p) = q
                  THEN FileNode(CHOOSE p \in ImportedFiles : ImportedAs(p) = q)
                  ELSE DirNode]
  /\ store = [k \in {Sanitize(SourceDirectoryName(TreeUri(<<TopP>>)))} |->
               MetaRecord(TreeUri(<<TopP>>),
                          SourceDirectoryName(TreeUri(<<TopP>>)), 0)]
  /\ secureMetadata = EmptyStore
  /\ svMounted = FALSE
  /\ op = [s \in Screens |-> IdleOp]
  /\ isImporting = [s \in Screens |-> FALSE]
  /\ isRestoring = FALSE
  /\ nOps = 0
  /\ dirty = [s \in Screens |-> FALSE]
  /\ nav = RootNav
  /\ lock = LockLoading
  /\ appLock = AppLockLoading
  /\ fmMove = FMIdle
  /\ probe = NoProbe

\* navigateToDirectoryOrOpenFile on a directory of the listing
NavigateToDirectory ==
  /\ svMounted /\ ~InFlight(op["sv"])
  /\ \E uri \in DirectoryContents :
       /\ IsDirIn(vault, VaultPath(uri))
       /\ nav' = IF InVault(uri)
                 THEN [nav EXCEPT !.pathHistory = Append(@, nav.currentPath),
                                  !.currentPath = uri]
                 ELSE nav
  /\ UNCHANGED <<probe, fmMove, appLock, lock, ext, vault, store, secureMetadata, svMounted, op,
                 isImporting, isRestoring, nOps, dirty>>

\* navigateUp with a history (the header button, and the hardware back press
\* below the root); without a history the press leaves the screen
NavigateUp ==
  /\ svMounted /\ ~InFlight(op["sv"])
  /\ nav.pathHistory # <<>>
  /\ LET previousPathEntry == nav.pathHistory[Len(nav.pathHistory)]
     IN nav' = IF InVault(previousPathEntry)
               THEN [nav EXCEPT !.pathHistory = SubSeq(@, 1, Len(@) - 1),
                                !.currentPath = previousPathEntry]
               ELSE [nav EXCEPT !.pathHistory = <<>>, !.currentPath = VaultRoot]
  /\ UNCHANGED <<probe, fmMove, appLock, lock, ext, vault, store, secureMetadata, svMounted, op,
                 isImporting, isRestoring, nOps, dirty>>

\* loadFiles(currentPath): the path check, then the root is made sure to exist
LoadFiles ==
  /\ svMounted /\ ~InFlight(op["sv"])
  /\ nav' = IF IsPrefix(<<>>, nav.currentPath) THEN nav
            ELSE [nav EXCEPT !.pathHistory = <<>>, !.currentPath = VaultRoot]
  /\ vault' = IF CanMakeDirectory(vault, <<>>) THEN MakeDirectory(vault, <<>>)
              ELSE vault
  /\ UNCHANGED <<probe, fmMove, appLock, lock, ext, store, secureMetadata, svMounted, op,
                 isImporting, isRestoring, nOps, dirty>>

\* confirmSingleItemDelete / confirmBatchDelete: deleteAsync on each selected
\* entry; the entries whose delete throws stay
ConfirmDelete ==
  /\ svMounted /\ ~InFlight(op["sv"])
  /\ DirectoryContents # {}
  /\ \E deleted \in SUBSET DirectoryContents :
       vault' = [q \in {r \in DOMAIN vault :
                          \A u \in deleted : ~IsPrefix(VaultPath(u), r)} |->
                   vault[q]]
  /\ UNCHANGED <<probe, fmMove, appLock, lock, nav, ext, store, secureMetadata, svMounted, op,
                 isImporting, isRestoring, nOps, dirty>>

\* initiateMoveOperation(selected items)
InitiateMove ==
  /\ svMounted /\ ~InFlight(op["sv"])
  /\ nav.itemsToMove = {}
  /\ \E items \in SUBSET DirectoryContents \ {{}} :
       nav' = [nav EXCEPT !.itemsToMove = items]
  /\ UNCHANGED <<probe, fmMove, appLock, lock, ext, vault, store, secureMetadata, svMounted, op,
                 isImporting, isRestoring, nOps, dirty>>

\* executeMove ("Move Here"): every item goes below currentPath under its own
\* name unless the check or moveAsync throws; move mode ends
ExecuteMove ==
  /\ svMounted /\ ~InFlight(op["sv"])
  /\ nav.itemsToMove # {}
  /\ IF ~InVault(nav.currentPath) THEN vault' = vault
     ELSE LET dir == VaultPath(nav.currentPath)
              movable == {p \in {VaultPath(u) : u \in nav.itemsToMove} :
                            /\ p \in DOMAIN vault
                            /\ IsDirIn(vault, dir)
                            /\ ~IsPrefix(p, dir)
                            /\ Append(dir, p[Len(p)]) \notin DOMAIN vault}
          IN \E done \in SUBSET movable :
               \* moveAsync({from, to}): the tree at from is at to afterwards
               LET kept == {q \in DOMAIN vault :
                              \A p \in done : ~IsPrefix(p, q)}
                   moved == DOMAIN vault \ kept
                   At(q) == LET p == CHOOSE x \in done : IsPrefix(x, q)
                            IN dir \o SubSeq(q, Len(p), Len(q))
               IN vault' = [r \in kept \cup {At(q) : q \in moved} |->
                              IF r \in kept THEN vault[r]
                              ELSE vault[CHOOSE q \in moved : At(q) = r]]
  /\ nav' = [nav EXCEPT !.itemsToMove = {}]
  /\ UNCHANGED <<probe, fmMove, appLock, lock, ext, store, secureMetadata, svMounted, op,
                 isImporting, isRestoring, nOps, dirty>>

\* the vault screen with its restore and its browser
SpecBrowser ==
  InitBrowser /\ [][\/ RestoreNext
                    \/ MountSV
                    \/ UnmountSV
                    \/ NavigateToDirectory
                    \/ NavigateUp
                    \/ LoadFiles
                    \/ ConfirmDelete
                    \/ InitiateMove
                    \/ ExecuteMove]_vars

(***************************************************************************)
(* getMimeType (both screens have the same function), applied to file      *)
(* names made of a stem and an ending.                                     *)
(***************************************************************************)
\* s.toLowerCase()
ToLowerCase(s) ==
  LET upper == <<"A", "B", "C", "D", "E", "F", "G", "H", "I", "J", "K", "L", "M", "N", "O", "P", "Q", "R", "S", "T", "U", "V", "W", "X", "Y", "Z">>
      lower == <<"a", "b", "c", "d", "e", "f", "g", "h", "i", "j", "k", "l", "m", "n", "o", "p", "q", "r", "s", "t", "u", "v", "w", "x", "y", "z">>
  IN [i \in 1..Len(s) |->
        IF \E k \in 1..26 : upper[k] = s[i]
        THEN lower[CHOOSE k \in 1..26 : upper[k] = s[i]]
        ELSE s[i]]

GetMimeType(fileName) ==
  LET extension == ToLowerCase(SubstringFrom(fileName, LastIndexOf(fileName, ".") + 1))
  IN CASE extension \in {<<"j", "p", "g">>, <<"j", "p", "e", "g">>} -> "image/jpeg"
       [] extension = <<"p", "n", "g">> -> "image/png"
       [] extension = <<"g", "i", "f">> -> "image/gif"
       [] extension = <<"w", "e", "b", "p">> -> "image/webp"
       [] extension = <<"p", "d", "f">> -> "application/pdf"
       [] extension = <<"m", "p", "3">> -> "audio/mpeg"
       [] extension = <<"m", "4", "a">> -> "audio/mp4"
       [] extension = <<"m", "p", "4">> -> "video/mp4"
       [] extension = <<"t", "x", "t">> -> "text/plain"
       [] OTHER -> "application/octet-stream"

\* the file names given: nothing, "a.", "a.txt." or "." before an ending of
\* the table, in lower or upper case, or another ending
InitMime ==
  /\ ext = InitialExt({<<TopP>>})
  /\ vault = EmptyMap
  /\ store = EmptyStore
  /\ secureMetadata = EmptyStore
  /\ svMounted = FALSE
  /\ op = [s \in Screens |-> IdleOp]
  /\ isImporting = [s \in Screens |-> FALSE]
  /\ isRestoring = FALSE
  /\ nOps = 0
  /\ dirty = [s \in Screens |-> FALSE]
  /\ nav = RootNav
  /\ lock = LockLoading
  /\ appLock = AppLockLoading
  /\ fmMove = FMIdle
  /\ \E x \in
       {stem \o ending :
         stem \in {<<>>, <<"a", ".">>, <<"a", ".", "t", "x", "t", ".">>, <<".">>},
         ending \in
        {<<"j", "p", "g">>,
         <<"j", "p", "e", "g">>,
         <<"p", "n", "g">>,
         <<"g", "i", "f">>,
         <<"w", "e", "b", "p">>,
         <<"p", "d", "f">>,
         <<"m", "p", "3">>,
         <<"m", "4", "a">>,
         <<"m", "p", "4">>,
         <<"t", "x", "t">>,
         <<"z", "i", "p">>,
         <<"j", "p">>,
         <<>>,
         <<"J", "P", "G">>,
         <<"J", "P", "E", "G">>,
         <<"P", "N", "G">>,
         <<"G", "I", "F">>,
         <<"W", "E", "B", "P">>,
         <<"P", "D", "F">>,
         <<"M", "P", "3">>,
         <<"M", "4", "A">>,
         <<"M", "P", "4">>,
         <<"T", "X", "T">>,
         <<"T", "x", "t">>}} :
       probe = [NoProbe EXCEPT !.fn = "mime", !.stage = "input", !.arg = x]

\* const mimeType = getMimeType(itemName), before createFileAsync
DeclareMimeType ==
  /\ probe.fn = "mime" /\ probe.stage = "input"
  /\ probe' = [probe EXCEPT !.stage = "once", !.out = GetMimeType(probe.arg)]
  /\ UNCHANGED engine

SpecMime == InitMime /\ [][DeclareMimeType]_vars

(***************************************************************************)
(* The Secure Folder lock screen.  A password is a string of characters;   *)
(* the user types one of a few into the fields.                            *)
(***************************************************************************)
Passwords ==
  {<<>>, <<"a", "b", "c">>, <<"a", "b", "c", "d">>, <<"w", "x", "y", "z">>}

\* checkPasswordExists, run by the effect when the screen mounts
CheckPasswordExists ==
  /\ lock.mode = "loading"
  /\ \E getItemThrows \in BOOLEAN :
       lock' = [lock EXCEPT !.mode =
                  IF getItemThrows THEN "set_password"
                  ELSE IF lock.stored # <<>> /\ lock.stored[1] # <<>>
                       THEN "enter_password"
                       ELSE "set_password"]
  /\ UNCHANGED <<probe, fmMove, appLock, nav, ext, vault, store, secureMetadata, svMounted, op,
                 isImporting, isRestoring, nOps, dirty>>

\* onChangeText of the password field and, in set_password mode, of the
\* confirmation field
OnChangeText ==
  /\ lock.mode \in {"set_password", "enter_password"}
  /\ lock.opened = "no"
  /\ \E text \in Passwords :
       \/ lock' = [lock EXCEPT !.password = text]
       \/ /\ lock.mode = "set_password"
          /\ lock' = [lock EXCEPT !.confirmPassword = text]
  /\ UNCHANGED <<probe, fmMove, appLock, nav, ext, vault, store, secureMetadata, svMounted, op,
                 isImporting, isRestoring, nOps, dirty>>

\* handleSetPassword: the button in set_password mode
HandleSetPassword ==
  /\ lock.mode = "set_password"
  /\ lock.opened = "no"
  /\ IF lock.password = <<>>
     THEN lock' = [lock EXCEPT !.error = "Password cannot be empty."]
     ELSE IF Len(lock.password) < 4
     THEN lock' = [lock EXCEPT !.error = "Password must be at least 4 characters long."]
     ELSE IF lock.password # lock.confirmPassword
     THEN lock' = [lock EXCEPT !.error = "Passwords do not match."]
     ELSE \/ \* setItemAsync throws
             lock' = [lock EXCEPT !.error = "Failed to save password. Please try again."]
          \/ lock' = [lock EXCEPT !.stored = <<lock.password>>,
                                  !.opened = "set"]
  /\ UNCHANGED <<probe, fmMove, appLock, nav, ext, vault, store, secureMetadata, svMounted, op,
                 isImporting, isRestoring, nOps, dirty>>

\* handleEnterPassword: the button in enter_password mode
HandleEnterPassword ==
  /\ lock.mode = "enter_password"
  /\ lock.opened = "no"
  /\ IF lock.password = <<>>
     THEN lock' = [lock EXCEPT !.error = "Please enter your password."]
     ELSE \/ \* getItemAsync throws
             lock' = [lock EXCEPT !.error = "An error occurred. Please try again."]
          \/ lock' = IF <<lock.password>> = lock.stored
                     THEN [lock EXCEPT !.opened = "enter"]
                     ELSE [lock EXCEPT !.error = "Incorrect password. Please try again.",
                                       !.password = <<>>]
  /\ UNCHANGED <<probe, fmMove, appLock, nav, ext, vault, store, secureMetadata, svMounted, op,
                 isImporting, isRestoring, nOps, dirty>>

\* the lock screen is opened again after router.replace took it away: a new
\* component, the SecureStore item as it is
OpenLockScreen ==
  /\ lock.opened # "no"
  /\ lock' = [LockLoading EXCEPT !.stored = lock.stored]
  /\ UNCHANGED <<probe, fmMove, appLock, nav, ext, vault, store, secureMetadata, svMounted, op,
                 isImporting, isRestoring, nOps, dirty>>

SpecLock ==
  Init /\ [][\/ CheckPasswordExists
             \/ OnChangeText
             \/ HandleSetPassword
             \/ HandleEnterPassword
             \/ OpenLockScreen]_vars

(***************************************************************************)
(* The app lock: RootLayout renders AppLockScreen until onUnlockSuccess    *)
(* sets isAppUnlocked, and the main navigation after that.                 *)
(***************************************************************************)
\* checkPasswordExists when the screen mounts; in enter_app_password mode the
\* effect runs checkBiometricSupport, which sets isBiometricAvailable
CheckAppPasswordExists ==
  /\ appLock.mode = "loading"
  /\ \E getItemThrows, compatible \in BOOLEAN :
       LET storedPassword == IF appLock.stored = <<>> THEN <<>>
                             ELSE appLock.stored[1]
       IN appLock' = IF getItemThrows \/ storedPassword = <<>>
                     THEN [appLock EXCEPT !.mode = "set_app_password"]
                     ELSE [appLock EXCEPT !.mode = "enter_app_password",
                                          !.isBiometricAvailable = compatible]
  /\ UNCHANGED <<probe, fmMove, lock, nav, ext, vault, store, secureMetadata, svMounted,
                 op, isImporting, isRestoring, nOps, dirty>>

\* onChangeText of the password field and, in set_app_password mode, of the
\* confirmation field
AppOnChangeText ==
  /\ appLock.mode \in {"set_app_password", "enter_app_password"}
  /\ ~appLock.isAppUnlocked
  /\ \E text \in Passwords :
       \/ appLock' = [appLock EXCEPT !.password = text]
       \/ /\ appLock.mode = "set_app_password"
          /\ appLock' = [appLock EXCEPT !.confirmPassword = text]
  /\ UNCHANGED <<probe, fmMove, lock, nav, ext, vault, store, secureMetadata, svMounted,
                 op, isImporting, isRestoring, nOps, dirty>>

\* handleSetPassword: the button in set_app_password mode
HandleSetAppPassword ==
  /\ appLock.mode = "set_app_password"
  /\ ~appLock.isAppUnlocked
  /\ IF appLock.password = <<>>
     THEN appLock' = [appLock EXCEPT !.error = "Password cannot be empty."]
     ELSE IF Len(appLock.password) < 4
     THEN appLock' = [appLock EXCEPT !.error = "Password must be at least 4 characters long."]
     ELSE IF appLock.password # appLock.confirmPassword
     THEN appLock' = [appLock EXCEPT !.error = "Passwords do not match."]
     ELSE \/ \* setItemAsync throws
             appLock' = [appLock EXCEPT !.error = "Failed to save app password. Please try again."]
          \/ appLock' = [appLock EXCEPT !.error = "",
                                        !.stored = <<appLock.password>>,
                                        !.isAppUnlocked = TRUE,
                                        !.unlockedBy = "set"]
  /\ UNCHANGED <<probe, fmMove, lock, nav, ext, vault, store, secureMetadata, svMounted,
                 op, isImporting, isRestoring, nOps, dirty>>

\* handleEnterPassword: the button in enter_app_password mode
HandleEnterAppPassword ==
  /\ appLock.mode = "enter_app_password"
  /\ ~appLock.isAppUnlocked
  /\ IF appLock.password = <<>>
     THEN appLock' = [appLock EXCEPT !.error = "Please enter your password."]
     ELSE \/ \* getItemAsync throws
             appLock' = [appLock EXCEPT !.error = "An error occurred. Please try again."]
          \/ appLock' = IF <<appLock.password>> = appLock.stored
                        THEN [appLock EXCEPT !.error = "",
                                             !.isAppUnlocked = TRUE,
                                             !.unlockedBy = "enter"]
                        ELSE [appLock EXCEPT !.error = "Incorrect password. Please try again.",
                                             !.password = <<>>]
  /\ UNCHANGED <<probe, fmMove, lock, nav, ext, vault, store, secureMetadata, svMounted,
                 op, isImporting, isRestoring, nOps, dirty>>

\* handleBiometricAuth: called by checkBiometricSupport when the hardware is
\* there and enrolled, and by the "Use Biometrics" button
HandleBiometricAuth ==
  /\ appLock.mode = "enter_app_password"
  /\ appLock.isBiometricAvailable
  /\ ~appLock.isAppUnlocked
  /\ \/ \* result.success
        appLock' = [appLock EXCEPT !.isAppUnlocked = TRUE,
                                   !.unlockedBy = "biometric"]
     \/ \* the user or the system cancelled
        appLock' = appLock
     \/ appLock' = [appLock EXCEPT !.error = "Biometric authentication failed. Please try your password."]
     \/ \* authenticateAsync throws
        appLock' = [appLock EXCEPT !.error = "Biometric authentication is not available or failed."]
  /\ UNCHANGED <<probe, fmMove, lock, nav, ext, vault, store, secureMetadata, svMounted,
                 op, isImporting, isRestoring, nOps, dirty>>

\* the app is started again: a new RootLayout, the SecureStore item as it is
RestartApp ==
  /\ appLock' = [AppLockLoading EXCEPT !.stored = appLock.stored]
  /\ UNCHANGED <<probe, fmMove, lock, nav, ext, vault, store, secureMetadata, svMounted,
                 op, isImporting, isRestoring, nOps, dirty>>

SpecAppLock ==
  Init /\ [][\/ CheckAppPasswordExists
             \/ AppOnChangeText
             \/ HandleSetAppPassword
             \/ HandleEnterAppPassword
             \/ HandleBiometricAuth
             \/ RestartApp]_vars

(***************************************************************************)
(* The file manager's move: items are picked in one directory and moved    *)
(* into the directory that is open when "Move Here" is pressed.            *)
(***************************************************************************)
\* the file manager opens a directory of the external storage or of the
\* document directory
FMNavigate ==
  /\ fmMove.pc = "idle"
  /\ \E place \in {[backend |-> "saf", path |-> p] : p \in DOMAIN ext}
                    \cup {[backend |-> "local", path |-> p] : p \in DOMAIN fmMove.local} :
       /\ IF place.backend = "saf" THEN IsDirIn(ext, place.path) /\ place.path # <<>>
          ELSE IsDirIn(fmMove.local, place.path)
       /\ fmMove' = [fmMove EXCEPT !.currentPath = place]
  /\ UNCHANGED <<probe, appLock, lock, nav, ext, vault, store, secureMetadata,
                 svMounted, op, isImporting, isRestoring, nOps, dirty>>

\* initiateMoveOperation(the selected items of the open directory)
FMInitiateMove ==
  /\ fmMove.pc = "idle"
  /\ fmMove.itemsToMove = <<>>
  /\ LET here == fmMove.currentPath
         fs == IF here.backend = "saf" THEN ext ELSE fmMove.local
     IN \E items \in SUBSET Children(fs, here.path) \ {{}} :
          fmMove' = [fmMove EXCEPT !.itemsToMove =
                       Listing({[backend |-> here.backend, path |-> p] : p \in items})]
  /\ UNCHANGED <<probe, appLock, lock, nav, ext, vault, store, secureMetadata,
                 svMounted, op, isImporting, isRestoring, nOps, dirty>>

\* executeMove ("Move Here"): the start, one turn of the loop over
\* itemsToMove, and the end with cancelMoveOperation
FMExecuteMove ==
  /\ \/ /\ fmMove.pc = "idle"
        /\ fmMove.itemsToMove # <<>>
        /\ nOps < MaxOps
        /\ nOps' = nOps + 1
        /\ fmMove' = [fmMove EXCEPT !.pc = "moving", !.todo = fmMove.itemsToMove,
                                    !.successCount = 0, !.errorCount = 0]
        /\ ext' = ext
     \/ /\ fmMove.pc = "moving"
        /\ fmMove.todo = <<>>
        /\ fmMove' = [fmMove EXCEPT !.pc = "idle", !.itemsToMove = <<>>,
                                    !.successCount = 0, !.errorCount = 0]
        /\ UNCHANGED <<ext, nOps>>
     \/ /\ fmMove.pc = "moving"
        /\ fmMove.todo # <<>>
        /\ nOps' = nOps
        /\ LET sourceItem == Head(fmMove.todo)
               dir == fmMove.currentPath
               from == IF sourceItem.backend = "saf" THEN ext ELSE fmMove.local
               into == IF dir.backend = "saf" THEN ext ELSE fmMove.local
               to == Append(dir.path, sourceItem.path[Len(sourceItem.path)])
               \* the two file systems with fs in the place of the backend b
               With(b, fs, pair) == IF b = "saf" THEN <<fs, pair[2]>> ELSE <<pair[1], fs>>
               Counted(pair, ok) ==
                 /\ ext' = pair[1]
                 /\ fmMove' = [fmMove EXCEPT
                                 !.local = pair[2], !.todo = Tail(@),
                                 !.successCount = IF ok THEN @ + 1 ELSE @,
                                 !.errorCount = IF ok THEN @ ELSE @ + 1]
               now == <<ext, fmMove.local>>
               \* createFileAsync made an empty file at the destination
               made == IF dir.backend = "saf"
                       THEN With("saf", Put(ext, to, FileNode(<<>>)), now)
                       ELSE now
               \* copyAsync({from, to}): the source, a file or a tree, is at to
               copied ==
                 LET at == IF dir.backend = "saf" THEN made[1] ELSE made[2]
                     under == {q \in DOMAIN from : IsPrefix(sourceItem.path, q)}
                     At(q) == to \o SubSeq(q, Len(sourceItem.path) + 1, Len(q))
                     kept == {q \in DOMAIN at : ~IsPrefix(to, q)}
                 IN With(dir.backend,
                         [r \in kept \cup {At(q) : q \in under} |->
                            IF r \in kept THEN at[r]
                            ELSE from[CHOOSE q \in under : At(q) = r]],
                         made)
               deleted ==
                 LET at == IF sourceItem.backend = "saf" THEN copied[1] ELSE copied[2]
                 IN With(sourceItem.backend, RemoveTree(at, sourceItem.path), copied)
           IN \/ \* createFileAsync throws or returns null (the name is taken, or
                 \* the directory is gone); the local destination exists
                 Counted(now, FALSE)
              \/ /\ IsDirIn(into, dir.path)
                 /\ dir.backend = "saf" => to \notin DOMAIN into
                 /\ \* getInfoAsync(to).catch(() => ({exists: false}))
                    dir.backend = "local" =>
                      \E statThrows \in BOOLEAN : statThrows \/ to \notin DOMAIN into
                 /\ \/ \* copyAsync throws
                       Counted(made, FALSE)
                    \/ /\ sourceItem.path \in DOMAIN from
                       /\ ~IsPrefix(sourceItem.path, to)
                       /\ \/ \* deleteAsync throws
                             Counted(copied, FALSE)
                          \/ Counted(deleted, TRUE)
  /\ UNCHANGED <<probe, appLock, lock, nav, vault, store, secureMetadata,
                 svMounted, op, isImporting, isRestoring, dirty>>

SpecFMMove ==
  Init /\ [][FMNavigate \/ FMInitiateMove \/ FMExecuteMove]_vars

(***************************************************************************)
(* The two screens without the assumption that the user waits for the file *)
(* manager's import to end: the file manager stays mounted under the       *)
(* screens pushed over it, its handler keeps running, and the vault screen *)
(* can be opened at any time.  Two folders, each with one file.            *)
(***************************************************************************)
InitOverlap ==
  /\ ext = InitialExt({<<TopP>>, <<TopP, NameUnder>>, <<TopQ>>, <<TopQ, NameUnder>>})
  /\ vault = EmptyMap
  /\ store = EmptyStore
  /\ secureMetadata = EmptyStore
  /\ svMounted = FALSE
  /\ op = [s \in Screens |-> IdleOp]
  /\ isImporting = [s \in Screens |-> FALSE]
  /\ isRestoring = FALSE
  /\ nOps = 0
  /\ dirty = [s \in Screens |-> FALSE]
  /\ nav = RootNav
  /\ lock = LockLoading
  /\ appLock = AppLockLoading
  /\ fmMove = FMIdle
  /\ probe = NoProbe

\* back from the file manager, the Secure Folder tile, the lock screen
MountSVAnytime ==
  /\ ~svMounted
  /\ InitializeSV

SpecOverlap ==
  InitOverlap /\ [][\/ \E s \in Screens : ImportNext(s)
                    \/ RestoreNext
                    \/ MountSVAnytime
                    \/ UnmountSV]_vars

(***************************************************************************)
(* The handlers on a folder P that holds a directory named " " with one    *)
(* file in it, next to a file.                                             *)
(***************************************************************************)
BlankDirFiles == {<<TopP, NameBlank, NameUnder>>, <<TopP, NameUnder>>}

InitBlankDir ==
  /\ ext = [p \in {<<>>, <<TopP>>, <<TopP, NameBlank>>} \cup BlankDirFiles |->
             IF p \in BlankDirFiles THEN FileNode(p) ELSE DirNode]
  /\ vault = EmptyMap
  /\ store = EmptyStore
  /\ secureMetadata = EmptyStore
  /\ svMounted = FALSE
  /\ op = [s \in Screens |-> IdleOp]
  /\ isImporting = [s \in Screens |-> FALSE]
  /\ isRestoring = FALSE
  /\ nOps = 0
  /\ dirty = [s \in Screens |-> FALSE]
  /\ nav = RootNav
  /\ lock = LockLoading
  /\ appLock = AppLockLoading
  /\ fmMove = FMIdle
  /\ probe = NoProbe

SpecBlankDir == InitBlankDir /\ [][Next]_vars

(***************************************************************************)
(* NameSanitizer as a pure function: a name is sanitized, and the result,  *)
(* when it is not empty, is sanitized again.  The engine stands still.     *)
(***************************************************************************)
\* longest name built from ProbeChars
MaxNameLen == 3

ProbeChars == {"a", "1", ".", ":", "*", "(", " ", "\t"}

\* "My Folder (1)"
ExampleMyFolder ==
  <<"M", "y", " ", "F", "o", "l", "d", "e", "r", " ", "(", "1", ")">>

\* "a:b*c"
ExampleColonStar == <<"a", ":", "b", "*", "c">>

ProbeNames ==
  UNION {[1..k -> ProbeChars] : k \in 0..MaxNameLen}
    \cup {ExampleMyFolder, ExampleColonStar}

InitSanitize ==
  /\ ext = InitialExt({<<TopP>>})
  /\ vault = EmptyMap
  /\ store = EmptyStore
  /\ secureMetadata = EmptyStore
  /\ svMounted = FALSE
  /\ op = [s \in Screens |-> IdleOp]
  /\ isImporting = [s \in Screens |-> FALSE]
  /\ isRestoring = FALSE
  /\ nOps = 0
  /\ dirty = [s \in Screens |-> FALSE]
  /\ nav = RootNav
  /\ lock = LockLoading
  /\ appLock = AppLockLoading
  /\ fmMove = FMIdle
  /\ \E x \in ProbeNames :
       probe = [NoProbe EXCEPT !.fn = "sanitize", !.stage = "input", !.arg = x]

\* the three replace calls and the trim, on a raw name
SanitizeName ==
  /\ probe.fn = "sanitize" /\ probe.stage = "input"
  /\ probe' = [probe EXCEPT !.stage = "once", !.out = Sanitize(probe.arg)]
  /\ UNCHANGED engine

\* the same, on a name that was sanitized before (a vault name imported again)
SanitizeAgain ==
  /\ probe.fn = "sanitize" /\ probe.stage = "once"
  /\ probe.out # <<>>
  /\ probe' = [probe EXCEPT !.stage = "twice", !.again = Sanitize(probe.out)]
  /\ UNCHANGED engine

SpecSanitize == InitSanitize /\ [][SanitizeName \/ SanitizeAgain]_vars

(***************************************************************************)
(* Vocabulary of the properties.                                           *)
(***************************************************************************)
Importing(s) == op[s].kind = "import"
Restoring == op["sv"].kind = "restore"

\* the operation on screen s has ended and no other has started since
JustEnded(s) == op[s].pc = "done" /\ nOps = op[s].started

\* the regular files of fs at or below the directory p
FilesUnder(fs, p) == {q \in DOMAIN fs : IsPrefix(p, q) /\ ~fs[q].isDir}
DirsUnder(fs, p) == {q \in DOMAIN fs : IsPrefix(p, q) /\ fs[q].isDir}

\* the vault directory an import copies into
ImportDest(s) == <<op[s].destName>>

(***************************************************************************)
(* C1.  During an import, once the copy of a file has thrown, the deletion *)
(* of the original granted tree is never invoked in that operation: the    *)
(* operation is Failed and the original tree is what it was.               *)
(***************************************************************************)
C1_CopyFailureNeverDeletes ==
  \A s \in Screens :
    Importing(s) /\ op[s].copyThrew =>
      /\ op[s].deletion = "none"
      /\ op[s].pc = "done" /\ op[s].outcome = "Failed"
      /\ JustEnded(s) => ext = op[s].pre.ext

\* the copy threw on a later file: an earlier one is already in the vault
C1_Witness ==
  \E s \in Screens :
    /\ Importing(s) /\ op[s].copyThrew
    /\ FilesUnder(vault, ImportDest(s)) # {}
    /\ Cardinality(FilesUnder(ext, op[s].granted)) >= 2

(***************************************************************************)
(* C2.  During a restore, the vault folder is deleted only if the copy     *)
(* back reported no per-item failure: once creating or locating a          *)
(* directory or creating or writing a file at the destination has failed,  *)
(* deleteAsync on the vault folder is never invoked in that operation.     *)
(***************************************************************************)
C2_RestoreDeletesOnlyAfterCleanCopy ==
  Restoring /\ op["sv"].itemFailures > 0 => op["sv"].deletion = "none"

(***************************************************************************)
(* C3.  No data loss on import: whenever the import is about to invoke, or *)
(* has invoked, the deletion of the original tree, every regular file of   *)
(* the original tree has a file with its content under the import's        *)
(* destination directory in the vault, skipped entries included.           *)
(***************************************************************************)
C3_NoDataLossOnImport ==
  \A s \in Screens :
    Importing(s) /\ op[s].pc = "delete" =>
      \A f \in FilesUnder(op[s].pre.ext, op[s].granted) :
        \E g \in FilesUnder(vault, ImportDest(s)) :
          vault[g].data = op[s].pre.ext[f].data

(***************************************************************************)
(* C4.  An import that ends in Complete leaves under its vault destination *)
(* exactly the N files and D+1 directories of the source tree, each at the *)
(* mirrored position under the sanitized name, and the original tree no    *)
(* longer exists at its address.                                           *)
(***************************************************************************)
\* the vault path that mirrors the source path p of the import on screen s
Mirror(s, p) ==
  ImportDest(s) \o [i \in 1..(Len(p) - Len(op[s].granted)) |->
                      Sanitize(p[Len(op[s].granted) + i])]

C4_ImportMirrorsTree ==
  \A s \in Screens :
    Importing(s) /\ JustEnded(s) /\ op[s].outcome = "Complete" =>
      LET source == op[s].pre.ext
          granted == op[s].granted
      IN /\ Cardinality(FilesUnder(vault, ImportDest(s)))
              = Cardinality(FilesUnder(source, granted))
         /\ Cardinality(DirsUnder(vault, ImportDest(s)))
              = Cardinality(DirsUnder(source, granted))
         /\ \A p \in DOMAIN source :
              IsPrefix(granted, p) =>
                /\ Mirror(s, p) \in DOMAIN vault
                /\ vault[Mirror(s, p)].isDir = source[p].isDir
         /\ granted \notin DOMAIN ext

(***************************************************************************)
(* C5.  Round trip: an import that ends in Complete, followed immediately  *)
(* by a restore of the same vault folder granted the original parent,      *)
(* leaves the original folder under its original name with every file and  *)
(* its content at the original location, no such folder in the vault and   *)
(* no record for it in the store.                                          *)
(***************************************************************************)
C5_RoundTrip ==
  LET r == op["sv"]
      i == r.prior
  IN ( /\ Restoring /\ JustEnded("sv") /\ r.outcome = "Complete"
       /\ i.kind = "import" /\ i.outcome = "Complete"
       /\ i.started + 1 = r.started
       /\ i.destName = r.destName
       /\ r.granted = SubSeq(i.granted, 1, Len(i.granted) - 1) )
     => /\ \A p \in DOMAIN i.tree :
             IsPrefix(i.granted, p) => p \in DOMAIN ext /\ ext[p] = i.tree[p]
        /\ <<r.destName>> \notin DOMAIN vault
        /\ r.destName \notin DOMAIN store

(***************************************************************************)
(* C6.  An import whose sanitized top-level name already exists in the     *)
(* vault root when the destination is checked ends Failed with the         *)
(* collision error, and changes neither the vault, nor the original tree,  *)
(* nor the metadata store.                                                 *)
(***************************************************************************)
C6_CollisionFailsWithoutChange ==
  \A s \in Screens :
    Importing(s) /\ op[s].destExisted =>
      /\ op[s].pc = "done" /\ op[s].outcome = "Failed" /\ op[s].error = "collision"
      /\ ~dirty[s]

(***************************************************************************)
(* C7.  When the platform denies the access grant, an import or a restore  *)
(* ends without any mutation: nothing is created or deleted in the vault   *)
(* or at the external location, and the metadata store is unchanged.       *)
(***************************************************************************)
C7_DenialMutatesNothing ==
  /\ \A s \in Screens :
       Importing(s) /\ op[s].outcome = "Denied" =>
         /\ op[s].pc = "done"
         /\ ~dirty[s]
         /\ JustEnded(s) => ext = op[s].pre.ext /\ store = op[s].pre.store
  /\ Restoring /\ op["sv"].error = "permission" =>
       /\ op["sv"].pc = "done" /\ op["sv"].outcome = "Failed"
       /\ ~dirty["sv"]
       /\ JustEnded("sv") => Snapshot = op["sv"].pre

\* a restore denied while the folder is in the vault and has its record
C7_Witness ==
  /\ Restoring /\ op["sv"].error = "permission" /\ op["sv"].pc = "done"
  /\ FilesUnder(vault, <<op["sv"].destName>>) # {}
  /\ op["sv"].destName \in DOMAIN store

C9_MetadataLifecycle ==
  /\ \A s \in Screens :
       Importing(s) /\ JustEnded(s) /\ op[s].outcome = "Complete" =>
         /\ op[s].destName \in DOMAIN store
         /\ store[op[s].destName].originalUri = op[s].sourceUri
         /\ store[op[s].destName].originalName = op[s].sourceName
  /\ Restoring /\ JustEnded("sv") /\ op["sv"].outcome = "Complete" =>
       op["sv"].destName \notin DOMAIN store

(***************************************************************************)
(* C10.  Every metadata write changes only its own key: the write of a     *)
(* successful import or restore preserves every other record that is in    *)
(* the persisted store when the write happens, whichever screen wrote it.  *)
(***************************************************************************)
C10_MetadataWritesKeepOtherRecords ==
  [][\A s \in Screens :
       op[s].pc = "metaSave" /\ op'[s].recorded =>
         \A k \in DOMAIN store \ {op[s].destName} :
           k \in DOMAIN store' /\ store'[k] = store[k]]_vars

(***************************************************************************)
(* C13.  The sanitizer is idempotent on the names on which it succeeds:    *)
(* when the result of sanitizing a name is not empty, sanitizing that      *)
(* result again returns it unchanged.                                      *)
(***************************************************************************)
C13_SanitizeIdempotent ==
  probe.fn = "sanitize" /\ probe.stage = "twice" => probe.again = probe.out

\* a name that the sanitizer changed in all three ways has been sanitized twice
C13_Witness ==
  /\ probe.fn = "sanitize" /\ probe.stage = "twice"
  /\ probe.arg = <<" ", "*", "\t">>
  /\ probe.out = <<"_">>

(***************************************************************************)
(* C14.  As stated: sanitizing "My Folder (1)" returns "My Folder (1)".    *)
(***************************************************************************)
C14_ParenthesesPreserved ==
  probe.fn = "sanitize" /\ probe.stage # "input" /\ probe.arg = ExampleMyFolder =>
    probe.out = ExampleMyFolder

(***************************************************************************)
(* C14, as the code has it: sanitizing "My Folder (1)" returns             *)
(* "My Folder _1_": the letters, the digit and the single spaces are       *)
(* preserved and each parenthesis is replaced by an underscore.            *)
(***************************************************************************)
C14_ParenthesesReplaced ==
  probe.fn = "sanitize" /\ probe.stage # "input" /\ probe.arg = ExampleMyFolder =>
    probe.out = <<"M", "y", " ", "F", "o", "l", "d", "e", "r", " ", "_", "1", "_">>

C14_Witness ==
  probe.fn = "sanitize" /\ probe.stage = "once" /\ probe.arg = ExampleMyFolder

C11_RestoreNeedsRecord ==
  /\ op["sv"].error # "norecord"
  /\ Restoring =>
       /\ op["sv"].destName \in DOMAIN op["sv"].meta
       /\ op["sv"].record = op["sv"].meta[op["sv"].destName]
       /\ IsDirIn(op["sv"].pre.vault, <<op["sv"].destName>>)

\* a restore of a recorded folder of the vault root is copying
C11_Witness ==
  /\ Restoring /\ op["sv"].pc = "copy"
  /\ IsDirIn(vault, <<op["sv"].destName>>)
  /\ op["sv"].destName \in DOMAIN secureMetadata

(***************************************************************************)
(* C12.  At most one vault import or restore is in flight at any time:     *)
(* between the start of an operation and its terminal state no second      *)
(* import or restore is started, from either screen.                       *)
(***************************************************************************)
C12_SingleActiveOperation ==
  LET running == {s \in Screens : isImporting[s] /\ InFlight(op[s])}
                   \cup (IF isRestoring THEN {"restore"} ELSE {})
  IN Cardinality(running) <= 1

(***************************************************************************)
(* C16.  When the deletion that follows the copy fails (of the original    *)
(* tree in an import, of the vault folder in a restore), the operation     *)
(* ends Failed with the error reported, writes no metadata, and the step   *)
(* leaves the copy's destination (the vault in an import, the external     *)
(* storage in a restore) as it was: every file the copy put there is still *)
(* there, with the same content.                                           *)
(***************************************************************************)
C16_DeleteFailureKeepsCopy ==
  [][/\ \A s \in Screens :
          Importing(s) /\ op[s].pc = "delete" /\ op'[s].deletion = "invoked" =>
            /\ op'[s].pc = "done" /\ op'[s].outcome = "Failed"
            /\ op'[s].error = "io" /\ ~op'[s].recorded
            /\ ~isImporting'[s]
            /\ vault' = vault /\ store' = store
     /\ Restoring /\ op["sv"].pc = "delete" /\ op'["sv"].deletion = "invoked" =>
          /\ op'["sv"].pc = "done" /\ op'["sv"].outcome = "Failed"
          /\ op'["sv"].error = "io" /\ ~op'["sv"].recorded
          /\ ~isRestoring'
          /\ ext' = ext /\ store' = store]_vars

\* an import has ended on a failed deletion with every file of the source in the
\* vault folder
C16_Witness ==
  \E s \in Screens :
    /\ Importing(s) /\ JustEnded(s) /\ op[s].deletion = "invoked"
    /\ op[s].outcome = "Failed" /\ op[s].skipped = 0
    /\ FilesUnder(ext, op[s].granted) # {}
    /\ Cardinality(FilesUnder(vault, ImportDest(s)))
         = Cardinality(FilesUnder(ext, op[s].granted))

(***************************************************************************)
(* C17.  An import that fails after its destination directory was created  *)
(* ends Failed without rollback: the failing step removes nothing from the *)
(* vault (the destination directory and every item copied so far remain),  *)
(* the external storage is as it was when the import started (the original *)
(* is not deleted), and no MetadataRecord is written.                      *)
(***************************************************************************)
C17_FailedImportKeepsPartialCopy ==
  [][\A s \in Screens :
       /\ Importing(s) /\ op[s].pc \in {"create", "copy", "delete"}
       /\ op'[s].outcome = "Failed"
       /\ IsDirIn(vault', ImportDest(s))
       => /\ op'[s].pc = "done"
          /\ \A p \in DOMAIN vault : p \in DOMAIN vault' /\ vault'[p] = vault[p]
          /\ ext' = op[s].pre.ext
          /\ op'[s].deletion # "done"
          /\ store' = op[s].pre.store /\ ~op'[s].recorded]_vars

\* an import has failed in the copy with a file already in its vault folder
C17_Witness ==
  \E s \in Screens :
    /\ Importing(s) /\ JustEnded(s) /\ op[s].outcome = "Failed"
    /\ op[s].deletion = "none"
    /\ FilesUnder(vault, ImportDest(s)) # {}
    /\ Cardinality(FilesUnder(vault, ImportDest(s)))
         < Cardinality(FilesUnder(ext, op[s].granted))

C19_EmptyNameSkipped ==
  [][/\ \A s \in Screens :
          /\ Importing(s) /\ op[s].pc = "copy" /\ op[s].todo # <<>>
          /\ UriExists(ext, Head(op[s].todo).uri)
          /\ Sanitize(ItemName(s, Head(op[s].todo).uri, op[s].started)) = <<>>
          => \/ op'[s].outcome = "Failed" /\ vault' = vault
             \/ /\ vault' = vault
                /\ op'[s].skipped = op[s].skipped + 1
                /\ IF Tail(op[s].todo) = <<>>
                   THEN op'[s].pc = "delete"
                   ELSE op'[s].pc = "copy" /\ op'[s].todo = Tail(op[s].todo)
     /\ \A p \in DOMAIN vault' : \A i \in 1..Len(p) : p[i] # <<>>]_vars

\* the vault screen's import has skipped the directory " " and completed: the
\* sibling file is in the vault folder, the file of the directory is not
C19_Witness ==
  /\ Importing("sv") /\ JustEnded("sv") /\ op["sv"].outcome = "Complete"
  /\ op["sv"].skipped = 1
  /\ IsDirIn(op["sv"].pre.ext, <<TopP, NameBlank>>)
  /\ \E q \in FilesUnder(vault, ImportDest("sv")) : vault[q].data = <<TopP, NameUnder>>
  /\ \A q \in FilesUnder(vault, <<>>) : vault[q].data # <<TopP, NameBlank, NameUnder>>

C22_OperationsTerminate ==
  /\ \A s \in Screens :
       isImporting[s] ~>
         /\ ~isImporting[s] /\ op[s].pc = "done"
         /\ op[s].outcome \in {"Complete", "Failed"}
         /\ op[s].outcome = "Failed" => op[s].error # "none"
  /\ isRestoring ~>
       /\ ~isRestoring /\ op["sv"].pc = "done"
       /\ op["sv"].outcome \in {"Complete", "Failed"}
       /\ op["sv"].outcome = "Failed" => op["sv"].error # "none"

\* after a completed import a restore has ended Failed and both flags are down
C22_Witness ==
  /\ Restoring /\ JustEnded("sv") /\ op["sv"].outcome = "Failed"
  /\ op["sv"].error = "io"
  /\ op["sv"].prior.kind = "import" /\ op["sv"].prior.outcome = "Complete"
  /\ ~isRestoring /\ \A s \in Screens : ~isImporting[s]

(***************************************************************************)
(* C23.  A restore that ends Failed (permission denied, an exception in    *)
(* the copy-back or in the deletion from the vault) leaves the persisted   *)
(* store as it was when the restore started, the folder's record included; *)
(* a running restore writes the store only in its last step, after the     *)
(* copy-back and the deletion of the vault folder have completed, and what *)
(* it writes does not hold the folder's record.                            *)
(***************************************************************************)
C23_RecordRemovedLast ==
  [][Restoring /\ InFlight(op["sv"]) =>
       /\ op'["sv"].outcome = "Failed" =>
            /\ store' = op["sv"].pre.store
            /\ op["sv"].destName \in DOMAIN op["sv"].pre.store =>
                 /\ op["sv"].destName \in DOMAIN store'
                 /\ store'[op["sv"].destName] = op["sv"].record
       /\ store' # store =>
            /\ op["sv"].pc = "metaSave" /\ op["sv"].deletion = "done"
            /\ <<op["sv"].destName>> \notin DOMAIN vault
            /\ op["sv"].destName \notin DOMAIN store'
            /\ op'["sv"].outcome = "Complete"]_vars

\* a restore has failed in the deletion from the vault and the store still holds
\* the folder's record
C23_Witness ==
  /\ Restoring /\ JustEnded("sv") /\ op["sv"].outcome = "Failed"
  /\ op["sv"].deletion = "invoked"
  /\ op["sv"].destName \in DOMAIN store
  /\ store[op["sv"].destName] = op["sv"].record

C25_LostUpdateOnlyOnOverlap ==
  [][\A s \in Screens :
       op[s].pc = "metaSave" /\ op'[s].recorded =>
         LET o == CHOOSE x \in Screens : x # s
         IN /\ op[o].recorded /\ op[o].destName \notin DOMAIN op[s].meta =>
                 op[o].destName \notin DOMAIN store'
            /\ ~InFlight(op[o]) =>
                 \A k \in DOMAIN store \ {op[s].destName} :
                   k \in DOMAIN store' /\ store'[k] = store[k]]_vars

(***************************************************************************)
(* C26.  An import writes distinct source entries to distinct vault paths: *)
(* a copy step never replaces an entry that the same import has put into   *)
(* the vault.                                                              *)
(***************************************************************************)
C26_DistinctDestinations ==
  [][\A s \in Screens :
       Importing(s) /\ op[s].pc = "copy" =>
         \A p \in DOMAIN vault \ DOMAIN op[s].pre.vault :
           p \in DOMAIN vault' /\ vault'[p] = vault[p]]_vars

(***************************************************************************)
(* C27.  Every key of the persisted metadata store names a directory that  *)
(* exists directly under the vault root.                                   *)
(***************************************************************************)
C27_StoreKeysNameVaultFolders ==
  \A k \in DOMAIN store : IsDirIn(vault, <<k>>)

(***************************************************************************)
(* C29.  In the vault browser the current path and every path of the path  *)
(* history lie inside the vault root.                                      *)
(***************************************************************************)
C29_NavigationStaysInVault ==
  /\ InVault(nav.currentPath)
  /\ \A i \in 1..Len(nav.pathHistory) : InVault(nav.pathHistory[i])

\* the browser is two levels below the root, where it came through the root and
\* the imported folder, with an item waiting to be moved
C29_Witness ==
  /\ svMounted
  /\ Len(nav.currentPath) = Len(VaultRoot) + 2
  /\ Len(nav.pathHistory) = 2 /\ nav.pathHistory[1] = VaultRoot
  /\ nav.itemsToMove # {}

(***************************************************************************)
(* C28.  After an import failed while copying and left its partial copy in *)
(* the vault, an import of the same source folder started from the other   *)
(* screen that finds the partial copy at its destination ends Failed with  *)
(* the collision error and has copied and deleted nothing.                 *)
(***************************************************************************)
C28_RetryStopsAtCollision ==
  \A s, t \in Screens :
    /\ Importing(t) /\ op[t].pc = "done" /\ op[t].outcome = "Failed"
    /\ op[t].copyThrew
    /\ Importing(s) /\ op[s].started > op[t].started
    /\ op[s].sourceUri = op[t].sourceUri
    /\ op[s].destExisted
    => /\ op[s].pc = "done" /\ op[s].outcome = "Failed"
       /\ op[s].error = "collision"
       /\ ~dirty[s]

(***************************************************************************)
(* C30.  While a Secure Folder password is stored, the lock screen is not  *)
(* in set_password mode, and it opens the vault browser only from          *)
(* handleEnterPassword with the stored password in the field.              *)
(***************************************************************************)
C30_StoredPasswordGuardsVault ==
  [][lock.stored # <<>> =>
       /\ lock'.mode # "set_password"
       /\ lock'.opened # lock.opened /\ lock'.opened # "no" =>
            lock'.opened = "enter" /\ <<lock.password>> = lock.stored]_vars

(***************************************************************************)
(* C33.  getMimeType gives a file name the type that the table has for     *)
(* its lower-cased last extension, the text after the last '.', and        *)
(* application/octet-stream to every other name; a name without '.' has no *)
(* extension.                                                              *)
(***************************************************************************)
C33_TypeByExtensionOnly ==
  probe.fn = "mime" /\ probe.stage = "once" =>
    LET name == ToLowerCase(probe.arg)
        dots == {i \in 1..Len(name) : name[i] = "."}
        table == {<<"jpg", "image/jpeg">>, <<"jpeg", "image/jpeg">>,
                  <<"png", "image/png">>, <<"gif", "image/gif">>,
                  <<"webp", "image/webp">>, <<"pdf", "application/pdf">>,
                  <<"mp3", "audio/mpeg">>, <<"m4a", "audio/mp4">>,
                  <<"mp4", "video/mp4">>, <<"txt", "text/plain">>}
        Spelled(word, from) ==
          /\ Len(name) - from = CASE word \in {"jpeg", "webp"} -> 4 [] OTHER -> 3
          /\ \A i \in 1..(Len(name) - from) :
               name[from + i] =
                 CASE word = "jpg" -> <<"j", "p", "g">>[i]
                   [] word = "jpeg" -> <<"j", "p", "e", "g">>[i]
                   [] word = "png" -> <<"p", "n", "g">>[i]
                   [] word = "gif" -> <<"g", "i", "f">>[i]
                   [] word = "webp" -> <<"w", "e", "b", "p">>[i]
                   [] word = "pdf" -> <<"p", "d", "f">>[i]
                   [] word = "mp3" -> <<"m", "p", "3">>[i]
                   [] word = "m4a" -> <<"m", "4", "a">>[i]
                   [] word = "mp4" -> <<"m", "p", "4">>[i]
                   [] word = "txt" -> <<"t", "x", "t">>[i]
        lastDot == CHOOSE i \in dots : \A j \in dots : j <= i
    IN IF dots # {} /\ \E row \in table : Spelled(row[1], lastDot)
       THEN \E row \in table : Spelled(row[1], lastDot) /\ probe.out = row[2]
       ELSE probe.out = "application/octet-stream"

(***************************************************************************)
(* C31.  isAppUnlocked becomes true only when the entered password equals  *)
(* the stored app password, or when a password of at least 4 characters    *)
(* that matches its confirmation was stored while no app password existed, *)
(* or when biometric authentication reported success.                      *)
(***************************************************************************)
C31_UnlockOnlyWhenAuthorized ==
  [][~appLock.isAppUnlocked /\ appLock'.isAppUnlocked =>
       \/ /\ appLock'.unlockedBy = "enter"
          /\ <<appLock.password>> = appLock.stored
       \/ /\ appLock'.unlockedBy = "set"
          /\ appLock.stored = <<>>
          /\ Len(appLock.password) >= 4
          /\ appLock.password = appLock.confirmPassword
          /\ appLock'.stored = <<appLock.password>>
       \/ appLock'.unlockedBy = "biometric"]_vars

(***************************************************************************)
(* C32.  In the file manager's move every turn of the loop counts its item *)
(* once, as a success or as an error; the item's source is gone only when  *)
(* its copy is at the destination and it was counted as a success; an item *)
(* whose destination already exists, or that is counted as an error, is    *)
(* unchanged at its source; and when the move ends the two counts add up   *)
(* to the number of items and move mode is cleared.                        *)
(***************************************************************************)
C32_MoveDeletesAfterCopy ==
  [][fmMove.pc = "moving" =>
       IF fmMove.todo = <<>>
       THEN /\ fmMove.successCount + fmMove.errorCount = Len(fmMove.itemsToMove)
            /\ fmMove'.itemsToMove = <<>>
       ELSE LET sourceItem == Head(fmMove.todo)
                dir == fmMove.currentPath
                from == IF sourceItem.backend = "saf" THEN ext ELSE fmMove.local
                fromAfter == IF sourceItem.backend = "saf" THEN ext' ELSE fmMove'.local
                into == IF dir.backend = "saf" THEN ext ELSE fmMove.local
                intoAfter == IF dir.backend = "saf" THEN ext' ELSE fmMove'.local
                to == Append(dir.path, sourceItem.path[Len(sourceItem.path)])
                under == {q \in DOMAIN from : IsPrefix(sourceItem.path, q)}
                unchanged == \A q \in under : q \in DOMAIN fromAfter /\ fromAfter[q] = from[q]
                success == fmMove'.successCount = fmMove.successCount + 1
                error == fmMove'.errorCount = fmMove.errorCount + 1
            IN /\ fmMove'.todo = Tail(fmMove.todo)
               /\ fmMove'.successCount + fmMove'.errorCount
                    = fmMove.successCount + fmMove.errorCount + 1
               /\ sourceItem.path \in DOMAIN from /\ sourceItem.path \notin DOMAIN fromAfter
                    => /\ success
                       /\ IF to \in DOMAIN intoAfter
                          THEN intoAfter[to] = from[sourceItem.path]
                          ELSE FALSE
               /\ error => unchanged
               /\ to \in DOMAIN into => error]_vars

====
